---------------------------- MODULE Spec2Model ----------------------------
(***************************************************************************)
(* Verification model of the RAG document-processing backend               *)
(* (src/backend): the job scheduler of app_fastapi.py, the document        *)
(* pipeline of services/processing_pipeline.py, the stage executors        *)
(* (services/ocr_service.py, embedding_service.py, qdrant_service.py) and  *)
(* the RAM progress store of core/state.py.                                *)
(*                                                                         *)
(* Strings that the code takes apart or joins (company ids, file names)    *)
(* are sequences of one-character strings.                                 *)
(*                                                                         *)
(* Specifications:                                                         *)
(*   Spec      scheduler: HTTP submissions, the thread pool and its        *)
(*             workers; every critical section of the pipeline is one      *)
(*             step, a stage executor is one step giving its outcome.      *)
(*   FairSpec  Spec with the fairness of the event loop and the pool.      *)
(*   SpecOcr   ocr_pdf_pages step by step, called repeatedly on one        *)
(*             document, with every pattern of rasterizer / extraction     *)
(*             service / cache-file failures.                              *)
(*   SpecPipe  one batch through process_documents_pipeline with the       *)
(*             stage executors step by step and the emitted events kept.   *)
(***************************************************************************)
EXTENDS Integers, Sequences, FiniteSets, TLC

(***************************************************************************)
(* Bounds of the model.                                                    *)
(***************************************************************************)
\* core/config.py:43 sets MAX_CONCURRENT_JOBS = 30; the pool is scaled down
\* so that it can be saturated by the companies of the model.
MAX_CONCURRENT_JOBS == 1

\* HTTP submissions in one behaviour of Spec.
MaxSubmissions == 2

\* core/config.py:44 BATCH_SIZE defaults to 64; scaled down so that a
\* document of MaxPages pages needs more than one batch.
BATCH_SIZE == 1

\* Pages of the longest document.
MaxPages == 2

\* Calls of ocr_pdf_pages on the same document in SpecOcr.
MaxPasses == 2

\* Failures of external collaborators injected in one behaviour of SpecPipe.
MaxFaults == 2

\* Calls of notify_processing_update in one behaviour of SpecBus.
MaxPublishes == 3

\* Structured-extraction runs started in SpecIdx.
MaxRuns == 2

(***************************************************************************)
(* Program constants.                                                      *)
(***************************************************************************)
MAX_RETRIES == 3

\* app.py cleanup_old_processing_states: ORPHAN_THRESHOLD_SECONDS.
ORPHAN_THRESHOLD_SECONDS == 3600

\* Companies submitting.
Companies == { <<"A">>, <<"B">> }

FileA == <<"a">>
FileB == <<"b">>

\* File lists a request may carry (ProcessDocumentsRequest.files).
FileNames == { FileA, FileB }
FileLists == { <<FileA>>, <<FileA, FileB>> }

Req == 1..MaxSubmissions

VARIABLES
    active_jobs,                \* app_fastapi.active_jobs
    processing_states_memory,   \* core.state.processing_states_memory
    hpc,          \* per request: position of the process_documents handler
    rcomp,        \* per request: request.company_id
    rfiles,       \* per request: request.files
    resp,         \* per request: HTTP status code returned (0: none yet)
    pool,         \* job_executor's work queue (requests not yet started)
    running,      \* requests whose worker thread is executing
    wk,           \* per request: locals of its worker / pipeline generator
    events,       \* per request: what its pipeline generator has yielded
    tracing,      \* whether the yielded events are kept (SpecOcr, SpecPipe)
    deka_client,  \* core.clients.deka_client is configured (not None)
    pdf_pages,    \* per file name: len(fitz.open(pdf)); -1: fitz.open raises
    cache,        \* the OCR cache directory: cache path -> file content
    ocr,          \* per request: locals of its ocr_pdf_pages generator
    ext_passes,   \* per cache path: calls of ocr_pdf_pages that have called
                  \* the extraction service
    faults,       \* failures of collaborators still to inject (-1: no limit)
    passes,       \* calls of ocr_pdf_pages made for the document of SpecOcr
    emb,          \* per request: locals of its generate_embeddings generator
    ing,          \* per request: locals of its ingest_to_qdrant generator
    qdrant,       \* the vector collection: whether it exists, its points
    processing_listeners,  \* core.state.processing_listeners (by subscriber)
    listener_queue,  \* per subscriber: the content of its queue.Queue()
    sse,          \* per subscriber: position of its event_stream generator
    pub,          \* per publisher: locals of its notify_processing_update
    delivered,    \* per subscriber: every update ever put into its queue
    finished,     \* the updates whose notify_processing_update has returned
    finished_before,  \* per subscriber: finished, as it was on registering
    processing_lock,  \* core.state.processing_lock: the thread holding it
    th,           \* per thread: position and locals of its load-mutate-save
    last_written, \* per (document, key): the value last saved by a sequence
                  \* that wrote it
    last_save,    \* the last call of save_processing_states (SpecStore)
    log_files,    \* PROCESSING_LOGS_DIR: file name -> age, content
    sweep,        \* locals of cleanup_old_processing_states
    last_put,     \* the last cache write of SpecCache
    rw,           \* per ingesting worker of SpecRace: locals of its
                  \* ingest_to_qdrant generator and what it has yielded
    creations,    \* create_collection calls the vector index has carried out
    extracted_data,  \* the relational table extracted_data: its rows
    ix,           \* locals of the structured-extraction run in progress
    active_jobs_lock,  \* app_fastapi.active_jobs_lock: the thread holding it
    hd,           \* per thread of SpecHold: its position in its statements
                  \* and the external call it is waiting on
    snap,         \* per request of SpecReject: processing_states_memory as
                  \* it was when the handler began
    dq            \* the submissions of SpecDocId: their (company_id,
                  \* file_name) pairs and which of them have been queued

busVars == <<processing_listeners, listener_queue, sse, pub,
             delivered, finished, finished_before>>

lockVars == <<processing_lock, th, last_written>>

storeVars == <<last_save>>

sweepVars == <<log_files, sweep>>

cacheVars == <<last_put>>

raceVars == <<rw, creations>>

idxVars == <<extracted_data, ix>>

holdVars == <<active_jobs_lock, hd>>

lastVars == <<snap, dq>>

laterVars == <<raceVars, idxVars, holdVars, lastVars>>

auxVars == <<busVars, lockVars, storeVars, sweepVars, cacheVars, laterVars>>

schedVars == <<active_jobs, processing_states_memory, hpc, rcomp, rfiles,
               resp, pool, running, wk, events, tracing>>

envVars == <<deka_client, pdf_pages, passes>>

vecVars == <<emb, ing, qdrant>>

stageVars == <<envVars, cache, ocr, ext_passes, faults, vecVars>>

vars == <<schedVars, stageVars, auxVars>>

Range(s) == { s[i] : i \in DOMAIN s }

(***************************************************************************)
(* core/state.py                                                           *)
(***************************************************************************)
\* combined = f"{company_id}:{file_name}"; the sha1 prefix is taken as
\* injective on the string that is hashed, which is what is kept here.
generate_document_id(company_id, file_name) ==
    company_id \o <<":">> \o file_name

\* The states of this company only.
load_processing_states(mem, company_id) ==
    [ d \in { x \in DOMAIN mem : mem[x].company_id = company_id } |-> mem[d] ]

\* Every state handed in overwrites the stored one; nothing is removed.
save_processing_states(mem, states) ==
    [ d \in (DOMAIN mem) \cup (DOMAIN states) |->
        IF d \in DOMAIN states THEN states[d] ELSE mem[d] ]

cleanup_processing_state(mem, doc_id) ==
    [ d \in (DOMAIN mem) \ {doc_id} |-> mem[d] ]

(***************************************************************************)
(* The DocumentJob record kept in the progress store.  A key that the      *)
(* Python dict does not hold yet is FALSE, "" or 0.  steps is the set of    *)
(* stage names under "steps"; logs keeps the status of each log entry.     *)
(***************************************************************************)
QueuedState(company_id, file_name) ==
    [ company_id    |-> company_id,
      file_name     |-> file_name,
      is_processing |-> FALSE,
      is_queued     |-> TRUE,
      isError       |-> FALSE,
      errorMessage  |-> "",
      progress      |-> 0,
      message       |-> "queued",
      current_page  |-> 0,
      total_pages   |-> 0,
      completed_pages |-> 0,
      steps         |-> {},
      logs          |-> <<"queued">> ]

\* The fallback state of the pipeline for a document that was not queued.
FallbackState(company_id, file_name) ==
    [ company_id    |-> company_id,
      file_name     |-> file_name,
      is_processing |-> TRUE,
      is_queued     |-> FALSE,
      isError       |-> FALSE,
      errorMessage  |-> "",
      progress      |-> 0,
      message       |-> "initializing",
      current_page  |-> 0,
      total_pages   |-> 0,
      completed_pages |-> 0,
      steps         |-> {},
      logs          |-> << >> ]

\* DocumentJob.status of the data model, read off the flags of the record.
Status(st) ==
    IF st.isError THEN "failed"
    ELSE IF st.is_processing THEN "processing"
    ELSE IF st.is_queued THEN "queued"
    ELSE "completed"

\* int(((file_idx + 1) / len(files)) * 100)
FileProgress(file_no, total) == (file_no * 100) \div total

(***************************************************************************)
(* Events yielded by the generators: status tag, step name, a number       *)
(* (page, count) where the event carries one.                              *)
(***************************************************************************)
Ev(status, step, n) ==
    [ status |-> status, step |-> step, n |-> n, page |-> 0,
      failed |-> 0, total |-> 0, pages |-> << >> ]

\* An event of ocr_pdf_pages about one page; n is the retry number of a
\* retry event.
EvPage(status, page, n) ==
    [ status |-> status, step |-> "", n |-> n, page |-> page,
      failed |-> 0, total |-> 0, pages |-> << >> ]

\* The completed event of ocr_pdf_pages: success_pages, failed_pages,
\* total_pages, pages_data.
EvCompleted(success, failed, total, pages) ==
    [ status |-> "completed", step |-> "", n |-> success, page |-> 0,
      failed |-> failed, total |-> total, pages |-> pages ]

Emit_Twice(r, evs) ==
    IF tracing THEN [ events EXCEPT ![r] = @ \o evs \o evs ] ELSE events

Emit(r, evs) ==
    IF tracing THEN [ events EXCEPT ![r] = @ \o evs ] ELSE events

(***************************************************************************)
(* app_fastapi.py: POST /api/process-documents.  The handler is a          *)
(* coroutine without an await: handlers run one at a time on the event     *)
(* loop, interleaved only with the pool's worker threads.                  *)
(***************************************************************************)
NoHandlerRunning == \A r \in Req : hpc[r] \in {"idle", "done"}

NextRequest(r) ==
    /\ hpc[r] = "idle"
    /\ \A q \in Req : q < r => hpc[q] # "idle"
    /\ NoHandlerRunning

\* The for loop of the handler over files: a later entry of the list
\* overwrites an earlier one for the same doc_id.
QueueAll(states, company_id, files) ==
    LET ids == { generate_document_id(company_id, files[i]) : i \in DOMAIN files }
        last(d) == CHOOSE i \in DOMAIN files :
                      /\ generate_document_id(company_id, files[i]) = d
                      /\ \A j \in DOMAIN files :
                            j > i => generate_document_id(company_id, files[j]) # d
    IN  [ d \in (DOMAIN states) \cup ids |->
            IF d \in ids THEN QueuedState(company_id, files[last(d)])
            ELSE states[d] ]

\* Lines 329-336: a request without company_id or without files is answered
\* 400 before anything is touched.
HandlerBadRequest(r) ==
    /\ NextRequest(r)
    /\ hpc' = [hpc EXCEPT ![r] = "done"]
    /\ resp' = [resp EXCEPT ![r] = 400]
    /\ UNCHANGED <<auxVars, active_jobs, processing_states_memory, rcomp, rfiles, pool,
                   running, wk, events, tracing, stageVars>>

\* Lines 338-366: the queued states are written for every file of the
\* request, before the handler has looked at active_jobs.
HandlerQueue(r) ==
    /\ NextRequest(r)
    /\ \E c \in Companies, fs \in FileLists :
          /\ rcomp' = [rcomp EXCEPT ![r] = c]
          /\ rfiles' = [rfiles EXCEPT ![r] = fs]
          /\ processing_states_memory' =
                save_processing_states(processing_states_memory,
                    QueueAll(load_processing_states(processing_states_memory, c),
                             c, fs))
    /\ hpc' = [hpc EXCEPT ![r] = "check"]
    /\ UNCHANGED <<auxVars, active_jobs, resp, pool, running, wk, events, tracing, stageVars>>

\* Lines 392-409: under active_jobs_lock, reject (409) a company that is in
\* active_jobs, otherwise add it.  The load of the pool only changes the
\* log line (STARTING NOW / QUEUED).
CheckRejects_NoLookup(company_id) == FALSE

CheckRejects(company_id) == company_id \in active_jobs

HandlerCheck(r) ==
    /\ hpc[r] = "check"
    /\ IF CheckRejects(rcomp[r])
       THEN /\ hpc' = [hpc EXCEPT ![r] = "done"]
            /\ resp' = [resp EXCEPT ![r] = 409]
            /\ rfiles' = [rfiles EXCEPT ![r] = << >>]
            /\ UNCHANGED active_jobs
       ELSE /\ active_jobs' = active_jobs \cup {rcomp[r]}
            /\ hpc' = [hpc EXCEPT ![r] = "submit"]
            /\ UNCHANGED <<auxVars, resp, rfiles>>
    /\ UNCHANGED <<auxVars, processing_states_memory, rcomp, pool, running, wk, events,
                   tracing, stageVars>>

\* Lines 411-425: job_executor.submit queues the job (202).
HandlerSubmit(r) ==
    /\ hpc[r] = "submit"
    /\ pool' = Append(pool, r)
    /\ hpc' = [hpc EXCEPT ![r] = "done"]
    /\ resp' = [resp EXCEPT ![r] = 202]
    /\ UNCHANGED <<auxVars, active_jobs, processing_states_memory, rcomp, rfiles,
                   running, wk, events, tracing, stageVars>>

\* active_jobs.discard(company_id), lines 387-388 and 415-416.
ReleaseSlot_Kept(jobs, company_id) == jobs

ReleaseSlot(jobs, company_id) == jobs \ {company_id}

\* Lines 414-418 and 427-435: submit raised; the slot is given back and the
\* outer handler answers 500.
HandlerSubmitFails(r) ==
    /\ hpc[r] = "submit"
    /\ active_jobs' = ReleaseSlot(active_jobs, rcomp[r])
    /\ hpc' = [hpc EXCEPT ![r] = "done"]
    /\ resp' = [resp EXCEPT ![r] = 500]
    /\ rfiles' = [rfiles EXCEPT ![r] = << >>]
    /\ UNCHANGED <<auxVars, processing_states_memory, rcomp, pool, running, wk, events,
                   tracing, stageVars>>

(***************************************************************************)
(* ThreadPoolExecutor(max_workers=MAX_CONCURRENT_JOBS): the oldest queued  *)
(* job starts when a worker thread is free.                                *)
(***************************************************************************)
WorkerFree_Unbounded == TRUE

WorkerFree == Cardinality(running) < MAX_CONCURRENT_JOBS

IdleWorker ==
    [ pc |-> "none", file_idx |-> 0, document_ids |-> << >>,
      cleanup_idx |-> 0,
      ocr_results |-> FALSE, ocr_pages_data |-> << >>,
      embedding_results |-> FALSE, points_data |-> << >>,
      terminal |-> "" ]

WorkerStart(r) ==
    /\ pool # << >>
    /\ Head(pool) = r
    /\ WorkerFree
    /\ pool' = Tail(pool)
    /\ running' = running \cup {r}
    /\ wk' = [wk EXCEPT ![r] = [IdleWorker EXCEPT !.pc = "loop"]]
    /\ UNCHANGED <<auxVars, active_jobs, processing_states_memory, hpc, rcomp, rfiles,
                   resp, events, tracing, stageVars>>


(***************************************************************************)
(* services/processing_pipeline.py: the load-mutate-save critical          *)
(* sections of process_documents_pipeline, each a function of the store.   *)
(* Each runs inside `with processing_lock`, so it is one step.             *)
(***************************************************************************)
\* Lines 77-112: queued -> processing, or the fallback state.
MarkProcessing(mem, company_id, file_name, doc_id) ==
    LET states == load_processing_states(mem, company_id)
        st0 == IF doc_id \in DOMAIN states
               THEN [states[doc_id] EXCEPT !.is_processing = TRUE,
                                           !.is_queued = FALSE,
                                           !.progress = 0,
                                           !.message = "initializing"]
               ELSE FallbackState(company_id, file_name)
        st1 == [st0 EXCEPT !.logs = Append(@, "started")]
    IN  save_processing_states(mem,
            [ d \in (DOMAIN states) \cup {doc_id} |->
                IF d = doc_id THEN st1 ELSE states[d] ])

\* processing_states[doc_id] raises KeyError when the loaded map lacks it.
HasState(mem, company_id, doc_id) ==
    doc_id \in DOMAIN load_processing_states(mem, company_id)

\* Lines 125-141, 198-214, 253-269: a stage is entered.
MarkStepStarted(mem, company_id, doc_id, step) ==
    LET states == load_processing_states(mem, company_id)
    IN  save_processing_states(mem,
            [states EXCEPT ![doc_id] =
                [@ EXCEPT !.steps = @ \cup {step},
                          !.message = step,
                          !.logs = Append(@, "step_started")]])

\* Lines 163-170, 236-243: the stage ended without its success event.
MarkStageFailed_Unrecorded(mem, company_id, doc_id, msg) == mem

MarkStageFailed(mem, company_id, doc_id, msg) ==
    LET states == load_processing_states(mem, company_id)
    IN  save_processing_states(mem,
            [states EXCEPT ![doc_id] =
                [@ EXCEPT !.is_processing = FALSE,
                          !.isError = TRUE,
                          !.errorMessage = msg]])

\* Lines 282-293: the completion record of one file.
MarkFileCompleted(mem, company_id, doc_id, file_no, total) ==
    LET states == load_processing_states(mem, company_id)
    IN  save_processing_states(mem,
            [states EXCEPT ![doc_id] =
                [@ EXCEPT !.message = "file_completed",
                          !.progress = FileProgress(file_no, total),
                          !.logs = Append(@, "file_completed")]])

\* Lines 352-364: every started document still in the store gets the
\* completion record, whatever its flags are.
RECURSIVE CompleteAll(_, _)
CompleteAll(states, ids) ==
    IF ids = << >> THEN states
    ELSE LET d == Head(ids)
             s1 == IF d \in DOMAIN states
                   THEN [states EXCEPT ![d] =
                            [@ EXCEPT !.is_processing = FALSE,
                                      !.message = "all_completed",
                                      !.progress = 100,
                                      !.logs = Append(@, "all_completed")]]
                   ELSE states
         IN  CompleteAll(s1, Tail(ids))

MarkAllCompleted(mem, company_id, document_ids) ==
    save_processing_states(mem,
        CompleteAll(load_processing_states(mem, company_id), document_ids))

\* Lines 380-400: the except branch records the error on every started
\* document still in the store.
RECURSIVE FailAll(_, _)
FailAll(states, ids) ==
    IF ids = << >> THEN states
    ELSE LET d == Head(ids)
             s1 == IF d \in DOMAIN states
                   THEN [states EXCEPT ![d] =
                            [@ EXCEPT !.is_processing = FALSE,
                                      !.isError = TRUE,
                                      !.errorMessage = "exception",
                                      !.logs = Append(@, "process_error")]]
                   ELSE states
         IN  FailAll(s1, Tail(ids))

MarkAllFailed_Unrecorded(mem, company_id, document_ids) == mem

MarkAllFailed(mem, company_id, document_ids) ==
    save_processing_states(mem,
        FailAll(load_processing_states(mem, company_id), document_ids))

(***************************************************************************)
(* process_documents_pipeline, run by worker r for request r.              *)
(***************************************************************************)
CurFile(r) == rfiles[r][wk[r].file_idx + 1]
CurDoc(r) == generate_document_id(rcomp[r], CurFile(r))
InLoop(r) == wk[r].pc = "loop" /\ wk[r].file_idx < Len(rfiles[r])

\* The pipeline's locals at the top of the next iteration of the file loop.
NextIteration(w) ==
    [w EXCEPT !.pc = "loop", !.file_idx = @ + 1,
              !.ocr_results = FALSE, !.ocr_pages_data = << >>,
              !.embedding_results = FALSE, !.points_data = << >>]

\* Lines 58-70: neither knowledge path exists.
P_FileMissing(r) ==
    /\ InLoop(r)
    /\ wk' = [wk EXCEPT ![r] = NextIteration(@)]
    /\ events' = Emit(r, <<Ev("file_error", "", 0)>>)
    /\ UNCHANGED <<auxVars, active_jobs, processing_states_memory, hpc, rcomp, rfiles,
                   resp, pool, running, tracing, stageVars>>

\* Lines 72-122.
P_BeginFile(r) ==
    /\ InLoop(r)
    /\ processing_states_memory' =
          MarkProcessing(processing_states_memory, rcomp[r], CurFile(r), CurDoc(r))
    /\ wk' = [wk EXCEPT ![r] = [@ EXCEPT !.pc = "ocr_step",
                                 !.document_ids = Append(@, CurDoc(r))]]
    /\ events' = Emit(r, <<Ev("file_started", "", wk[r].file_idx + 1)>>)
    /\ UNCHANGED <<auxVars, active_jobs, hpc, rcomp, rfiles, resp, pool, running,
                   tracing, stageVars>>

\* A stage is entered (step_started); KeyError goes to the except branch.
EnterStep(r, step, nextpc) ==
    IF HasState(processing_states_memory, rcomp[r], CurDoc(r))
    THEN /\ processing_states_memory' =
               MarkStepStarted(processing_states_memory, rcomp[r], CurDoc(r), step)
         /\ wk' = [wk EXCEPT ![r].pc = nextpc]
         /\ events' = Emit(r, <<Ev("step_started", step, 0)>>)
    ELSE /\ wk' = [wk EXCEPT ![r].pc = "except"]
         /\ UNCHANGED <<auxVars, processing_states_memory, events>>

\* The failure branch after a stage: mark failed, step_failed, next file.
FailStep(r, step, msg) ==
    IF HasState(processing_states_memory, rcomp[r], CurDoc(r))
    THEN /\ processing_states_memory' =
               MarkStageFailed(processing_states_memory, rcomp[r], CurDoc(r), msg)
         /\ wk' = [wk EXCEPT ![r] = NextIteration(@)]
         /\ events' = Emit(r, <<Ev("step_failed", step, 0)>>)
    ELSE /\ wk' = [wk EXCEPT ![r].pc = "except"]
         /\ UNCHANGED <<auxVars, processing_states_memory, events>>

\* Lines 124-148.
P_OcrStep(r) ==
    /\ wk[r].pc = "ocr_step"
    /\ EnterStep(r, "ocr", "ocr")
    /\ UNCHANGED <<auxVars, active_jobs, hpc, rcomp, rfiles, resp, pool, running,
                   tracing, stageVars>>

\* Lines 162-221: after the OCR stage; ok: a completed event was yielded.
AfterOcr_EmptyFails(r, ok) ==
    IF ~ok \/ wk[r].ocr_pages_data = << >>
    THEN FailStep(r, "ocr", "OCR processing failed")
    ELSE EnterStep(r, "embedding", "embed")

AfterOcr(r, ok) ==
    IF ~ok
    THEN FailStep(r, "ocr", "OCR processing failed")
    ELSE EnterStep(r, "embedding", "embed")

\* Lines 235-276: after the embedding stage; ok: embedding_completed was
\* yielded.
AfterEmbed(r, ok) ==
    IF ~ok
    THEN FailStep(r, "embedding", "Embedding generation failed")
    ELSE EnterStep(r, "ingestion", "ingest")

\* Lines 278-302: whatever ingest_to_qdrant yielded, the completion record
\* is written and file_completed is yielded.
AfterIngest(r, nextw) ==
    IF HasState(processing_states_memory, rcomp[r], CurDoc(r))
    THEN /\ processing_states_memory' =
               MarkFileCompleted(processing_states_memory, rcomp[r], CurDoc(r),
                                 wk[r].file_idx + 1, Len(rfiles[r]))
         /\ wk' = [wk EXCEPT ![r] = nextw]
         /\ events' = Emit(r, <<Ev("file_completed", "", wk[r].file_idx + 1)>>)
    ELSE /\ wk' = [wk EXCEPT ![r].pc = "except"]
         /\ UNCHANGED <<auxVars, processing_states_memory, events>>

\* Lines 349-373: the loop is over.
P_Finish(r) ==
    /\ wk[r].pc = "loop"
    /\ wk[r].file_idx = Len(rfiles[r])
    /\ processing_states_memory' =
          MarkAllCompleted(processing_states_memory, rcomp[r], wk[r].document_ids)
    /\ wk' = [wk EXCEPT ![r] = [@ EXCEPT !.pc = "cleanup",
                                         !.terminal = "all_completed"]]
    /\ events' = Emit(r, <<Ev("all_completed", "", 0)>>)
    /\ UNCHANGED <<auxVars, active_jobs, hpc, rcomp, rfiles, resp, pool, running,
                   tracing, stageVars>>

\* Lines 375-405: an exception reached the pipeline boundary.
P_Except(r) ==
    /\ wk[r].pc = "except"
    /\ processing_states_memory' =
          MarkAllFailed(processing_states_memory, rcomp[r], wk[r].document_ids)
    /\ wk' = [wk EXCEPT ![r] = [@ EXCEPT !.pc = "cleanup",
                                         !.terminal = "process_error"]]
    /\ events' = Emit(r, <<Ev("process_error", "", 0)>>)
    /\ UNCHANGED <<auxVars, active_jobs, hpc, rcomp, rfiles, resp, pool, running,
                   tracing, stageVars>>

\* Lines 407-410: finally, one cleanup_processing_state per started
\* document, each under the lock on its own.
P_Cleanup(r) ==
    /\ wk[r].pc = "cleanup"
    /\ wk[r].cleanup_idx < Len(wk[r].document_ids)
    /\ processing_states_memory' =
          cleanup_processing_state(processing_states_memory,
                                   wk[r].document_ids[wk[r].cleanup_idx + 1])
    /\ wk' = [wk EXCEPT ![r].cleanup_idx = @ + 1]
    /\ UNCHANGED <<auxVars, active_jobs, hpc, rcomp, rfiles, resp, pool, running,
                   events, tracing, stageVars>>

(***************************************************************************)
(* app_fastapi.py lines 368-390, start_processing_in_background: when the  *)
(* generator is exhausted (or raised) the finally block gives the          *)
(* company's slot back and the worker thread is free again.                *)
(***************************************************************************)
W_Release(r) ==
    /\ wk[r].pc = "cleanup"
    /\ wk[r].cleanup_idx = Len(wk[r].document_ids)
    /\ active_jobs' = ReleaseSlot(active_jobs, rcomp[r])
    /\ running' = running \ {r}
    /\ wk' = [wk EXCEPT ![r] = [IdleWorker EXCEPT !.pc = "done"]]
    /\ rfiles' = [rfiles EXCEPT ![r] = << >>]
    /\ UNCHANGED <<auxVars, processing_states_memory, hpc, rcomp, resp, pool, events,
                   tracing, stageVars>>

(***************************************************************************)
(* core/config.py lines 50-67, get_ocr_cache_path: the company part of the *)
(* path is sanitised, the document name is used as it is.                  *)
(***************************************************************************)
UnsafeChars == { "\\", "/", "*", "?", ":", "\"", "<", ">", "|" }

RECURSIVE safe_company_id(_)
safe_company_id(company_id) ==
    IF company_id = << >> THEN << >>
    ELSE <<IF Head(company_id) \in UnsafeChars THEN "_" ELSE Head(company_id)>>
         \o safe_company_id(Tail(company_id))

get_ocr_cache_path(company_id, source_name) ==
    safe_company_id(company_id) \o <<"/">> \o source_name \o <<".json">>

\* ocr_service.py lines 111-129: the artifact exists and json.load reads it.
CacheHit_Ignored(path) == FALSE

CacheHit(path) == path \in DOMAIN cache /\ cache[path].readable

\* Lines 354-360: what open(cache_path, 'w') and json.dump leave behind; an
\* exception is caught and logged.  "ok": the pages; "partial": a truncated
\* file that json.load rejects; "failed": the directory as it was.
CacheWrite(path, pages, outcome) ==
    IF outcome = "failed" THEN cache
    ELSE [ q \in (DOMAIN cache) \cup {path} |->
             IF q = path
             THEN [ readable |-> (outcome = "ok"),
                    pages |-> IF outcome = "ok" THEN pages ELSE << >> ]
             ELSE cache[q] ]

(***************************************************************************)
(* services/ocr_service.py, ocr_pdf_pages.                                 *)
(***************************************************************************)
\* The text the extraction service returns for a page, as its words.
PageText(page) == [ k \in 1..page |-> "w" ]

\* Lines 262-270: page_result of a page the service has read.
PageResult(page, text) == [ page |-> page, text |-> text, words |-> Len(text) ]

OcrFailedText == <<"[OCR", "FAILED]">>

\* Lines 340-345: the entry of a page whose attempts are used up.
FailurePage_Counted(page) == PageResult(page, OcrFailedText)

FailurePage(page) == [ page |-> page, text |-> OcrFailedText, words |-> 0 ]

\* Lines 316, 333: time.sleep(2 ** retries).
Backoff_Constant(retries) == 2

Backoff(retries) == 2 ^ retries

\* Lines 213, 312, 328: `retries < MAX_RETRIES`.
ShouldRetry(retries) == retries < MAX_RETRIES

\* The locals of one call of ocr_pdf_pages; stats keeps, per page begun,
\* the extraction calls made, the failed attempts and the sleeps taken.
OcrIdle ==
    [ total_pages |-> 0, i |-> 0, retries |-> 0,
      success_pages |-> 0, failed_pages |-> 0, pages_out |-> << >>,
      from_cache |-> FALSE, called |-> FALSE, stats |-> << >> ]

PageStats == [ calls |-> 0, fails |-> 0, sleeps |-> << >> ]

\* A collaborator may fail while failures are left to inject.
CanFail == faults # 0
Failed == IF faults > 0 THEN faults - 1 ELSE faults

\* Lines 159-173: current_page, total_pages of the document's state.
MarkPageStarted(mem, company_id, doc_id, page, total) ==
    LET states == load_processing_states(mem, company_id)
    IN  IF doc_id \in DOMAIN states
        THEN save_processing_states(mem,
                [states EXCEPT ![doc_id] =
                    [@ EXCEPT !.current_page = page,
                              !.total_pages = total,
                              !.message = "page"]])
        ELSE mem

\* Lines 276-288: completed_pages of the document's state.
MarkPageCompleted(mem, company_id, doc_id, done) ==
    LET states == load_processing_states(mem, company_id)
    IN  IF doc_id \in DOMAIN states
        THEN save_processing_states(mem,
                [states EXCEPT ![doc_id] =
                    [@ EXCEPT !.completed_pages = done,
                              !.message = "page_completed"]])
        ELSE mem

CachePath(r) == get_ocr_cache_path(rcomp[r], CurFile(r))

\* What the pipeline keeps of the generator's events (lines 150-160).
OcrReturn_Unparsed(w, ok, pages) ==
    [w EXCEPT !.pc = "after_ocr", !.ocr_results = FALSE, !.ocr_pages_data = << >>]

OcrReturn_Succeeded(w, ok, pages) ==
    [w EXCEPT !.pc = "after_ocr", !.ocr_results = TRUE, !.ocr_pages_data = pages]

OcrReturn(w, ok, pages) ==
    [w EXCEPT !.pc = "after_ocr", !.ocr_results = ok, !.ocr_pages_data = pages]

\* Lines 110-153: the cache check, the client check, fitz.open, started.
O_Start(r) ==
    /\ wk[r].pc = "ocr"
    /\ IF CacheHit(CachePath(r))
       THEN LET pages == cache[CachePath(r)].pages
            IN  /\ events' = Emit(r, << Ev("started", "", 0),
                                        EvCompleted(Len(pages), 0, Len(pages), pages) >>)
                /\ wk' = [wk EXCEPT ![r] = OcrReturn(@, TRUE, pages)]
                /\ ocr' = [ocr EXCEPT ![r] = [OcrIdle EXCEPT !.from_cache = TRUE]]
       ELSE IF ~deka_client
       THEN /\ events' = Emit(r, << Ev("", "error", 0) >>)
            /\ wk' = [wk EXCEPT ![r] = OcrReturn(@, FALSE, << >>)]
            /\ ocr' = [ocr EXCEPT ![r] = OcrIdle]
       ELSE IF pdf_pages[CurFile(r)] < 0
       THEN /\ wk' = [wk EXCEPT ![r].pc = "except"]
            /\ ocr' = [ocr EXCEPT ![r] = OcrIdle]
            /\ UNCHANGED events
       ELSE /\ events' = Emit(r, << Ev("started", "", 0) >>)
            /\ wk' = [wk EXCEPT ![r].pc = "ocr_page"]
            /\ ocr' = [ocr EXCEPT ![r] =
                         [OcrIdle EXCEPT !.total_pages = pdf_pages[CurFile(r)]]]
    /\ UNCHANGED <<auxVars, active_jobs, processing_states_memory, hpc, rcomp, rfiles,
                   resp, pool, running, tracing,
                   envVars, cache, ext_passes, faults, vecVars>>

\* Lines 155-211: the head of the page loop.
O_PageBegin(r) ==
    /\ wk[r].pc = "ocr_page"
    /\ ocr[r].i < ocr[r].total_pages
    /\ LET page == ocr[r].i + 1
       IN  /\ processing_states_memory' =
                 MarkPageStarted(processing_states_memory, rcomp[r], CurDoc(r),
                                 page, ocr[r].total_pages)
           /\ events' = Emit(r, << EvPage("processing", page, 0),
                                   EvPage("page_started", page, 0) >>)
    /\ ocr' = [ocr EXCEPT ![r] = [@ EXCEPT !.retries = 0,
                                           !.stats = Append(@, PageStats)]]
    /\ wk' = [wk EXCEPT ![r].pc = "ocr_attempt"]
    /\ UNCHANGED <<auxVars, active_jobs, hpc, rcomp, rfiles, resp, pool, running, tracing,
                   envVars, cache, ext_passes, faults, vecVars>>

\* The locals after `retries += 1` in an except clause of the retry loop
\* (lines 309-350).  A failure of the call first reaches the inner clause,
\* which re-raises to the outer one when no retry is left; a failure of the
\* rasteriser reaches the outer clause alone.
AfterFailure_Unrecorded(o, page, inner) ==
    LET r1 == o.retries + 1
        r2 == IF inner /\ ~ShouldRetry(r1) THEN r1 + 1 ELSE r1
        retry == ShouldRetry(r2)
        st == [o.stats[page] EXCEPT
                 !.fails = @ + 1,
                 !.sleeps = IF retry THEN Append(@, Backoff(r2)) ELSE @]
    IN  [o EXCEPT !.retries = r2,
                  !.stats = [@ EXCEPT ![page] = st],
                  !.failed_pages = IF retry THEN @ ELSE @ + 1,
                  !.i = IF retry THEN @ ELSE @ + 1]

AfterFailure(o, page, inner) ==
    LET r1 == o.retries + 1
        r2 == IF inner /\ ~ShouldRetry(r1) THEN r1 + 1 ELSE r1
        retry == ShouldRetry(r2)
        st == [o.stats[page] EXCEPT
                 !.fails = @ + 1,
                 !.sleeps = IF retry THEN Append(@, Backoff(r2)) ELSE @]
    IN  [o EXCEPT !.retries = r2,
                  !.stats = [@ EXCEPT ![page] = st],
                  !.failed_pages = IF retry THEN @ ELSE @ + 1,
                  !.pages_out = IF retry THEN @ ELSE Append(@, FailurePage(page)),
                  !.i = IF retry THEN @ ELSE @ + 1]

\* Lines 213-350: one turn of `while retries < MAX_RETRIES and not
\* page_success`: the rasteriser, the extraction call, what follows it.
O_Attempt(r) ==
    /\ wk[r].pc = "ocr_attempt"
    /\ ShouldRetry(ocr[r].retries)
    /\ LET o == ocr[r]
           page == o.i + 1
           called == [o EXCEPT !.called = TRUE,
                               !.stats = [@ EXCEPT ![page].calls = @ + 1]]
       IN  \E outcome \in {"raster_failed", "call_failed", "call_ok"} :
             /\ outcome # "call_ok" => CanFail
             /\ faults' = IF outcome = "call_ok" THEN faults ELSE Failed
             /\ ext_passes' =
                  IF outcome # "raster_failed" /\ ~o.called
                  THEN [ext_passes EXCEPT ![CachePath(r)] = @ + 1]
                  ELSE ext_passes
             /\ IF outcome = "call_ok"
                THEN LET o1 == [called EXCEPT
                                  !.pages_out = Append(@, PageResult(page, PageText(page))),
                                  !.success_pages = @ + 1,
                                  !.i = @ + 1]
                     IN  /\ ocr' = [ocr EXCEPT ![r] = o1]
                         /\ processing_states_memory' =
                               MarkPageCompleted(processing_states_memory, rcomp[r],
                                                 CurDoc(r), o1.success_pages)
                         /\ events' = Emit(r, << EvPage("page_api_call", page, 0),
                                                 EvPage("page_completed", page, 0) >>)
                         /\ wk' = [wk EXCEPT ![r].pc = "ocr_page"]
                ELSE LET inner == outcome = "call_failed"
                         o1 == AfterFailure(IF inner THEN called ELSE o, page, inner)
                         retry == o1.i = o.i
                     IN  /\ ocr' = [ocr EXCEPT ![r] = o1]
                         /\ events' = Emit(r,
                               (IF inner THEN << EvPage("page_api_call", page, 0) >>
                                         ELSE << >>)
                               \o << IF retry THEN EvPage("retry", page, o1.retries)
                                              ELSE EvPage("page_failed", page, 0) >>)
                         /\ wk' = [wk EXCEPT ![r].pc =
                                      IF retry THEN "ocr_attempt" ELSE "ocr_page"]
                         /\ UNCHANGED processing_states_memory
    /\ UNCHANGED <<auxVars, active_jobs, hpc, rcomp, rfiles, resp, pool, running, tracing,
                   envVars, cache, vecVars>>

\* Lines 352-369: the pages are done: doc.close(), the cache file,
\* completed.
O_Finish(r) ==
    /\ wk[r].pc = "ocr_page"
    /\ ocr[r].i = ocr[r].total_pages
    /\ \E outcome \in {"ok", "partial", "failed"} :
          /\ outcome # "ok" => CanFail
          /\ faults' = IF outcome = "ok" THEN faults ELSE Failed
          /\ cache' = CacheWrite(CachePath(r), ocr[r].pages_out, outcome)
    /\ events' = Emit(r, << EvCompleted(ocr[r].success_pages, ocr[r].failed_pages,
                                        ocr[r].total_pages, ocr[r].pages_out) >>)
    /\ wk' = [wk EXCEPT ![r] = OcrReturn(@, TRUE, ocr[r].pages_out)]
    /\ UNCHANGED <<auxVars, active_jobs, processing_states_memory, hpc, rcomp, rfiles,
                   resp, pool, running, tracing,
                   envVars, ocr, ext_passes, vecVars>>


\* Lines 162-221 of processing_pipeline.py with the outcome the OCR
\* generator left in the pipeline's locals.
P_AfterOcr(r) ==
    /\ wk[r].pc = "after_ocr"
    /\ AfterOcr(r, wk[r].ocr_results)
    /\ UNCHANGED <<auxVars, active_jobs, hpc, rcomp, rfiles, resp, pool, running,
                   tracing, stageVars>>

(***************************************************************************)
(* services/embedding_service.py, generate_embeddings.  The chunks of a    *)
(* document are its pages (processing_pipeline.py lines 179-195).          *)
(***************************************************************************)
EmbIdle == [ i |-> 0, vectors |-> 0 ]
IngIdle == [ i |-> 0, uploaded_count |-> 0 ]

VecIdle ==
    /\ emb = [r \in Req |-> EmbIdle]
    /\ ing = [r \in Req |-> IngIdle]
    /\ qdrant = [ exists |-> FALSE, points |-> << >> ]

Min(a, b) == IF a < b THEN a ELSE b

\* Lines 116-117: uuid5(NAMESPACE_URL, f"{doc_id}:{page}").
PointId(doc_id, page) == [ doc |-> doc_id, page |-> page ]

\* Lines 114-127: result_data, one point per chunk.
PointsData(doc_id, pages, vectors) ==
    [ k \in 1..Len(pages) |->
        [ id |-> PointId(doc_id, pages[k].page),
          vector |-> (k <= vectors),
          page |-> pages[k].page ] ]

\* What the pipeline keeps of the generator's events (lines 223-233).
EmbedReturn_Accepted(w, ok, points) ==
    [w EXCEPT !.pc = "after_embed", !.embedding_results = TRUE, !.points_data = points]

EmbedReturn_Retrying(w, ok, points) ==
    IF ok
    THEN [w EXCEPT !.pc = "after_embed", !.embedding_results = ok, !.points_data = points]
    ELSE w

EmbedReturn(w, ok, points) ==
    [w EXCEPT !.pc = "after_embed", !.embedding_results = ok, !.points_data = points]

\* Lines 51-70: build_embedder, the probe embed_query, embedding_started.
E_Start(r) ==
    /\ wk[r].pc = "embed"
    /\ emb' = [emb EXCEPT ![r] = EmbIdle]
    /\ IF ~deka_client
       THEN /\ events' = Emit(r, << Ev("", "error", 0) >>)
            /\ wk' = [wk EXCEPT ![r] = EmbedReturn(@, FALSE, << >>)]
            /\ UNCHANGED faults
       ELSE \E ok \in BOOLEAN :
              /\ ~ok => CanFail
              /\ faults' = IF ok THEN faults ELSE Failed
              /\ IF ok
                 THEN /\ events' = Emit(r, << Ev("embedding_started", "",
                                                 Len(wk[r].ocr_pages_data)) >>)
                      /\ wk' = [wk EXCEPT ![r].pc = "embed_batch"]
                 ELSE /\ events' = Emit(r, << Ev("embedding_failed", "", 0) >>)
                      /\ wk' = [wk EXCEPT ![r] = EmbedReturn(@, FALSE, << >>)]
    /\ UNCHANGED <<auxVars, active_jobs, processing_states_memory, hpc, rcomp, rfiles,
                   resp, pool, running, tracing,
                   envVars, cache, ocr, ext_passes, ing, qdrant>>

\* Lines 74-112: one batch of embed_documents.
E_Batch(r) ==
    /\ wk[r].pc = "embed_batch"
    /\ emb[r].i < Len(wk[r].ocr_pages_data)
    /\ LET batch == Min(BATCH_SIZE, Len(wk[r].ocr_pages_data) - emb[r].i)
           batch_num == (emb[r].i \div BATCH_SIZE) + 1
       IN  \E ok \in BOOLEAN :
             /\ ~ok => CanFail
             /\ faults' = IF ok THEN faults ELSE Failed
             /\ IF ok
                THEN /\ emb' = [emb EXCEPT ![r] =
                                  [ i |-> @.i + BATCH_SIZE,
                                    vectors |-> @.vectors + batch ]]
                     /\ events' = Emit(r, << Ev("embedding_batch", "", batch_num),
                                             Ev("embedding_batch_completed", "",
                                                batch_num) >>)
                     /\ UNCHANGED wk
                ELSE /\ events' = Emit(r, << Ev("embedding_batch", "", batch_num),
                                             Ev("embedding_error", "", batch_num) >>)
                     /\ wk' = [wk EXCEPT ![r] = EmbedReturn(@, FALSE, << >>)]
                     /\ UNCHANGED emb
    /\ UNCHANGED <<auxVars, active_jobs, processing_states_memory, hpc, rcomp, rfiles,
                   resp, pool, running, tracing,
                   envVars, cache, ocr, ext_passes, ing, qdrant>>

\* Lines 114-134: the points, embedding_completed.
E_Finish(r) ==
    /\ wk[r].pc = "embed_batch"
    /\ emb[r].i >= Len(wk[r].ocr_pages_data)
    /\ events' = Emit(r, << Ev("embedding_completed", "", emb[r].vectors) >>)
    /\ wk' = [wk EXCEPT ![r] =
                EmbedReturn(@, TRUE,
                    PointsData(CurDoc(r), wk[r].ocr_pages_data, emb[r].vectors))]
    /\ UNCHANGED <<auxVars, active_jobs, processing_states_memory, hpc, rcomp, rfiles,
                   resp, pool, running, tracing, stageVars>>

\* Lines 235-276 of processing_pipeline.py.
P_AfterEmbed(r) ==
    /\ wk[r].pc = "after_embed"
    /\ AfterEmbed(r, wk[r].embedding_results)
    /\ UNCHANGED <<auxVars, active_jobs, hpc, rcomp, rfiles, resp, pool, running,
                   tracing, stageVars>>

(***************************************************************************)
(* services/qdrant_service.py, ingest_to_qdrant.                           *)
(***************************************************************************)
\* Lines 34-73: ingestion_started; get_collection, and create_collection
\* when it raised.  "found": the collection is there; "created": it was
\* not; "exists": get_collection failed on a collection that is there and
\* create_collection answered `already exists`; "failed": create_collection
\* raised anything else.
I_Start(r) ==
    /\ wk[r].pc = "ingest"
    /\ ing' = [ing EXCEPT ![r] = IngIdle]
    /\ \E outcome \in {"found", "created", "exists", "failed"} :
          /\ outcome = "found" => qdrant.exists
          /\ outcome = "created" => ~qdrant.exists
          /\ outcome = "exists" => qdrant.exists /\ CanFail
          /\ outcome = "failed" => CanFail
          /\ faults' = IF outcome \in {"exists", "failed"} THEN Failed ELSE faults
          /\ qdrant' = [qdrant EXCEPT !.exists = @ \/ outcome = "created"]
          /\ events' = Emit(r,
                << Ev("ingestion_started", "", Len(wk[r].points_data)) >>
                \o (IF outcome = "created" THEN << Ev("collection_created", "", 0) >>
                    ELSE IF outcome = "exists" THEN << Ev("collection_exists", "", 0) >>
                    ELSE IF outcome = "failed" THEN << Ev("ingestion_failed", "", 0) >>
                    ELSE << >>))
          /\ wk' = [wk EXCEPT ![r].pc =
                       IF outcome = "failed" THEN "after_ingest" ELSE "ingest_batch"]
    /\ UNCHANGED <<auxVars, active_jobs, processing_states_memory, hpc, rcomp, rfiles,
                   resp, pool, running, tracing,
                   envVars, cache, ocr, ext_passes, emb>>

\* Lines 105-109, qdrant_client.upsert: a point whose id is stored replaces
\* the stored point, any other point is added.
RECURSIVE Upsert_Appended(_, _)
Upsert_Appended(stored, batch) ==
    IF batch = << >> THEN stored
    ELSE Upsert_Appended(Append(stored, Head(batch)), Tail(batch))

RECURSIVE Upsert(_, _)
Upsert(stored, batch) ==
    IF batch = << >> THEN stored
    ELSE LET pt == Head(batch)
             Other(q) == q.id # pt.id
         IN  Upsert(Append(SelectSeq(stored, Other), pt), Tail(batch))

\* Lines 78-132: one batch of upsert.
I_Batch(r) ==
    /\ wk[r].pc = "ingest_batch"
    /\ ing[r].i < Len(wk[r].points_data)
    /\ LET hi == Min(ing[r].i + BATCH_SIZE, Len(wk[r].points_data))
           batch == SubSeq(wk[r].points_data, ing[r].i + 1, hi)
           batch_num == (ing[r].i \div BATCH_SIZE) + 1
       IN  \E ok \in BOOLEAN :
             /\ ~ok => CanFail
             /\ faults' = IF ok THEN faults ELSE Failed
             /\ IF ok
                THEN /\ qdrant' = [qdrant EXCEPT !.points = Upsert(@, batch)]
                     /\ ing' = [ing EXCEPT ![r] =
                                  [ i |-> @.i + BATCH_SIZE,
                                    uploaded_count |-> @.uploaded_count + (hi - @.i) ]]
                     /\ events' = Emit(r, << Ev("ingestion_batch", "", batch_num),
                                             Ev("ingestion_batch_completed", "",
                                                batch_num) >>)
                     /\ UNCHANGED wk
                ELSE /\ events' = Emit(r, << Ev("ingestion_batch", "", batch_num),
                                             Ev("ingestion_error", "", batch_num) >>)
                     /\ wk' = [wk EXCEPT ![r].pc = "after_ingest"]
                     /\ UNCHANGED <<auxVars, ing, qdrant>>
    /\ UNCHANGED <<auxVars, active_jobs, processing_states_memory, hpc, rcomp, rfiles,
                   resp, pool, running, tracing,
                   envVars, cache, ocr, ext_passes, emb>>

\* Lines 134-144: ingestion_completed.
I_Finish(r) ==
    /\ wk[r].pc = "ingest_batch"
    /\ ing[r].i >= Len(wk[r].points_data)
    /\ events' = Emit(r, << Ev("ingestion_completed", "", ing[r].uploaded_count) >>)
    /\ wk' = [wk EXCEPT ![r].pc = "after_ingest"]
    /\ UNCHANGED <<auxVars, active_jobs, processing_states_memory, hpc, rcomp, rfiles,
                   resp, pool, running, tracing, stageVars>>

\* Lines 278-302 of processing_pipeline.py: the loop over the generator
\* keeps nothing of what it yields.
P_AfterIngest(r) ==
    /\ wk[r].pc = "after_ingest"
    /\ AfterIngest(r, [wk[r] EXCEPT !.pc = "structured"])
    /\ UNCHANGED <<auxVars, active_jobs, hpc, rcomp, rfiles, resp, pool, running,
                   tracing, stageVars>>

\* Lines 304-347: structured indexing inside its own try/except.  What
\* can go wrong in it:
\*   "db_unreachable"     get_db_connection returns None (db_utils.py:32-34)
\*   "listing_failed"     the SELECT of the index names raises (lines 320-322)
\*   "extraction_failed"  the extraction service fails inside
\*                        index_single_document, which catches it
\*   "cache_missing"      index_single_document finds no cache artifact
\*   "failed"             an exception reaches the except clause of line 346
\*                        after step_started was yielded
\*   "unavailable"        the imports of lines 306-307 raise
StructuredOutcomes ==
    { "ok", "db_unreachable", "listing_failed", "extraction_failed",
      "cache_missing", "failed", "unavailable" }

\* The events of the stage: the first four failures are handled inside the
\* try block and step_completed is still yielded.
StructuredEvents(outcome) ==
    IF outcome = "unavailable" THEN << >>
    ELSE << Ev("step_started", "structured_indexing", 0) >>
         \o (IF outcome = "failed" THEN << >>
             ELSE << Ev("step_completed", "structured_indexing", 0) >>)

\* The pipeline's locals after the stage: line 346 catches every Exception
\* and the loop goes to its next iteration.
AfterStructured_Raising(w, outcome) ==
    IF outcome \in {"failed", "unavailable"}
    THEN [w EXCEPT !.pc = "except"]
    ELSE NextIteration(w)

AfterStructured(w, outcome) == NextIteration(w)

P_Structured(r) ==
    /\ wk[r].pc = "structured"
    /\ \E outcome \in StructuredOutcomes :
          /\ outcome # "ok" => CanFail
          /\ faults' = IF outcome = "ok" THEN faults ELSE Failed
          /\ events' = Emit(r, StructuredEvents(outcome))
          /\ wk' = [wk EXCEPT ![r] = AfterStructured(@, outcome)]
    /\ UNCHANGED <<auxVars, active_jobs, processing_states_memory, hpc, rcomp, rfiles,
                   resp, pool, running, tracing,
                   envVars, cache, ocr, ext_passes, vecVars>>

(***************************************************************************)
(* Spec: a stage executor is one step.  What the pipeline sees of a stage  *)
(* is whether its success event was among the events it yielded, or that   *)
(* the call raised; a stage touches nothing of the status flags of the     *)
(* store, so its step is taken together with the critical section that     *)
(* follows it in the pipeline.                                             *)
(***************************************************************************)
\* Lines 150-221.  ocr_pdf_pages: completed, or no completed event (client
\* not configured), or an exception (fitz.open).
S_Ocr(r) ==
    /\ wk[r].pc = "ocr"
    /\ \E out \in {"completed", "error", "raised"} :
          IF out = "raised"
          THEN /\ wk' = [wk EXCEPT ![r].pc = "except"]
               /\ UNCHANGED <<auxVars, processing_states_memory, events>>
          ELSE AfterOcr(r, out = "completed")
    /\ UNCHANGED <<auxVars, active_jobs, hpc, rcomp, rfiles, resp, pool, running,
                   tracing, stageVars>>

\* Lines 223-276.  generate_embeddings catches every exception itself.
S_Embed(r) ==
    /\ wk[r].pc = "embed"
    /\ \E ok \in BOOLEAN : AfterEmbed(r, ok)
    /\ UNCHANGED <<auxVars, active_jobs, hpc, rcomp, rfiles, resp, pool, running,
                   tracing, stageVars>>

\* Lines 278-347.  ingest_to_qdrant catches every exception itself and the
\* pipeline does not look at what it yielded; structured indexing runs
\* inside its own try/except and writes nothing to the store.
S_Ingest(r) ==
    /\ wk[r].pc = "ingest"
    /\ AfterIngest(r, NextIteration(wk[r]))
    /\ UNCHANGED <<auxVars, active_jobs, hpc, rcomp, rfiles, resp, pool, running,
                   tracing, stageVars>>

(***************************************************************************)
(* Spec: the scheduler.                                                    *)
(***************************************************************************)
\* The stage executors are steps of their own in SpecOcr and SpecPipe only.
StageIdle ==
    /\ deka_client = TRUE
    /\ pdf_pages = [f \in FileNames |-> 0]
    /\ cache = << >>
    /\ ocr = [r \in Req |-> OcrIdle]
    /\ ext_passes = << >>
    /\ faults = 0
    /\ passes = 0
    /\ VecIdle

(***************************************************************************)
(* The load-mutate-save sequences on the progress store, statement by      *)
(* statement, under core.state.processing_lock.                            *)
(***************************************************************************)
\* The threads that run such sequences at the same time: the event loop
\* with a submission handler, the worker of company A and the worker of
\* company B.
Threads == { "handler", "workerA", "workerB" }

\* threading.RLock: free, or held by a thread, which may take it again.
CanAcquire_Always(lock, t) == TRUE

\* threading.Lock in the place of threading.RLock.
CanAcquire_Plain(lock, t) == lock = "free"

CanAcquire(lock, t) == lock = "free" \/ lock = t

\* The sequences a thread runs one after the other.
\*   "queue"         app_fastapi.py:339-365
\*   "processing"    processing_pipeline.py:77-112
\*   "step_started"  processing_pipeline.py:125-141
\*   "page_started"  ocr_service.py:159-173
Sequences(t) ==
    IF t = "handler" THEN << "queue" >>
    ELSE IF t = "workerA" THEN << "processing", "step_started", "page_started" >>
    ELSE << "processing", "step_started" >>

\* The statements of a sequence between its load and its save, on the map
\* that was loaded.
Mutate(seq, states, company_id, files) ==
    LET file_name == files[1]
        doc_id == generate_document_id(company_id, file_name)
    IN  CASE seq = "queue" -> QueueAll(states, company_id, files)
          [] seq = "processing" -> MarkProcessing(states, company_id, file_name, doc_id)
          [] seq = "step_started" -> MarkStepStarted(states, company_id, doc_id, "ocr")
          [] seq = "page_started" -> MarkPageStarted(states, company_id, doc_id, 1, 1)

\* The keys of a state.
Fields == DOMAIN QueuedState(<< >>, << >>)

\* The fields (document, key) a sequence has written: those of its map
\* that differ from what it loaded.
WrittenFields(before, after) ==
    { k \in (DOMAIN after) \X Fields :
         k[1] \notin DOMAIN before \/ before[k[1]][k[2]] # after[k[1]][k[2]] }

ThreadIdle(t) ==
    [ pc |-> "out", todo |-> Sequences(t), company_id |-> << >>,
      files |-> << >>, loaded |-> << >>, states |-> << >> ]

LockIdle ==
    /\ processing_lock = "free"
    /\ th = [ t \in Threads |-> ThreadIdle(t) ]
    /\ last_written = << >>

\* with processing_lock:
L_Acquire(t) ==
    /\ th[t].pc = "out"
    /\ th[t].todo # << >>
    /\ CanAcquire(processing_lock, t)
    /\ processing_lock' = t
    /\ th' = [th EXCEPT ![t].pc = "held"]
    /\ UNCHANGED <<processing_states_memory, last_written>>

\* processing_states = load_processing_states(company_id), which takes the
\* lock again.
L_Load(t) ==
    /\ th[t].pc = "held"
    /\ CanAcquire(processing_lock, t)
    /\ LET states == load_processing_states(processing_states_memory,
                                            th[t].company_id)
       IN  th' = [th EXCEPT ![t].pc = "loaded", ![t].loaded = states,
                            ![t].states = states]
    /\ UNCHANGED <<processing_states_memory, processing_lock, last_written>>

L_Mutate(t) ==
    /\ th[t].pc = "loaded"
    /\ th' = [th EXCEPT ![t].pc = "mutated",
                        ![t].states = Mutate(Head(th[t].todo), @,
                                             th[t].company_id, th[t].files)]
    /\ UNCHANGED <<processing_states_memory, processing_lock, last_written>>

\* save_processing_states(company_id, processing_states), which takes the
\* lock again.
L_Save(t) ==
    /\ th[t].pc = "mutated"
    /\ CanAcquire(processing_lock, t)
    /\ processing_states_memory' =
          save_processing_states(processing_states_memory, th[t].states)
    /\ LET w == WrittenFields(th[t].loaded, th[t].states)
       IN  last_written' =
              [ k \in (DOMAIN last_written) \cup w |->
                   IF k \in w THEN th[t].states[k[1]][k[2]] ELSE last_written[k] ]
    /\ th' = [th EXCEPT ![t].pc = "saved"]
    /\ UNCHANGED processing_lock

\* The with block is left.
L_Release(t) ==
    /\ th[t].pc = "saved"
    /\ processing_lock' = IF processing_lock = t THEN "free" ELSE processing_lock
    /\ th' = [th EXCEPT ![t].pc = "out", ![t].todo = Tail(@),
                        ![t].loaded = << >>, ![t].states = << >>]
    /\ UNCHANGED <<processing_states_memory, last_written>>

StoreIdle == last_save = << >>

SweepIdle == log_files = << >> /\ sweep = << >>

CacheIdle == last_put = << >>

RaceIdle == rw = << >> /\ creations = 0

IdxIdle == extracted_data = {} /\ ix = << >>

HoldIdle == active_jobs_lock = "free" /\ hd = << >>

LastIdle == snap = << >> /\ dq = << >>

LaterIdle == RaceIdle /\ IdxIdle /\ HoldIdle /\ LastIdle

(***************************************************************************)
(* The event bus: core/state.py notify_processing_update and the SSE       *)
(* endpoint of app_fastapi.py.                                             *)
(***************************************************************************)
\* A connection of an SSE client: each has the queue.Queue() its
\* event_stream generator creates.
Subscribers == { "s1", "s2" }

\* The threads that call notify_processing_update: each calls it again and
\* again, one call after the other.
Publishers == { "p1", "p2" }

RECURSIVE SumOver(_, _)
SumOver(ps, f) ==
    IF ps = {} THEN 0
    ELSE LET p == CHOOSE q \in ps : TRUE IN f[p].n + SumOver(ps \ {p}, f)

\* The n-th update of publisher p.
Update(p, n) == <<p, n>>

\* json.dumps(data): the text that is enqueued.
Dumps(data) == [ json |-> data ]

\* queue.Queue() has maxsize 0: put appends and never waits.
Put_Front(q, item) == <<item>> \o q

Put(q, item) == Append(q, item)

\* The calls of notify_processing_update made so far.
Published == SumOver(Publishers, pub)

PubIdle == [ pc |-> "idle", n |-> 0, listeners |-> {}, disconnected |-> {} ]

BusIdle ==
    /\ processing_listeners = {}
    /\ listener_queue = [ s \in Subscribers |-> << >> ]
    /\ sse = [ s \in Subscribers |-> "none" ]
    /\ pub = [ p \in Publishers |-> PubIdle ]
    /\ delivered = [ s \in Subscribers |-> << >> ]
    /\ finished = {}
    /\ finished_before = [ s \in Subscribers |-> {} ]

AuxIdle ==
    BusIdle /\ LockIdle /\ StoreIdle /\ SweepIdle /\ CacheIdle /\ LaterIdle

\* app_fastapi.py:500-504: the generator creates its queue and registers
\* it under the lock.
B_Subscribe(s) ==
    /\ sse[s] = "none"
    /\ sse' = [sse EXCEPT ![s] = "open"]
    /\ processing_listeners' = processing_listeners \cup {s}
    /\ finished_before' = [finished_before EXCEPT ![s] = finished]
    /\ UNCHANGED <<listener_queue, pub, delivered, finished>>

\* app_fastapi.py:510-513: listener_queue.get takes the oldest entry.
B_Get(s) ==
    /\ sse[s] = "open"
    /\ listener_queue[s] # << >>
    /\ listener_queue' = [listener_queue EXCEPT ![s] = Tail(@)]
    /\ UNCHANGED <<processing_listeners, sse, pub, delivered, finished,
                   finished_before>>

\* app_fastapi.py:516-520: the client goes away; the finally clause
\* discards the queue.
B_Disconnect(s) ==
    /\ sse[s] = "open"
    /\ sse' = [sse EXCEPT ![s] = "closed"]
    /\ processing_listeners' = processing_listeners \ {s}
    /\ UNCHANGED <<listener_queue, pub, delivered, finished, finished_before>>

\* state.py:114-119: the copy of the listener set, taken under the lock.
B_Notify(p) ==
    /\ pub[p].pc = "idle"
    /\ Published < MaxPublishes
    /\ pub' = [pub EXCEPT ![p] = [ pc |-> "send", n |-> @.n + 1,
                                   listeners |-> processing_listeners,
                                   disconnected |-> {} ]]
    /\ UNCHANGED <<processing_listeners, listener_queue, sse, delivered,
                   finished, finished_before>>

\* state.py:120-124: one iteration of the for loop over the copy (a set:
\* any order).  put returns at once; whatever put or json.dumps raises
\* puts the listener into disconnected.
B_Put(p) ==
    /\ pub[p].pc = "send"
    /\ \E s \in pub[p].listeners :
          \E raised \in BOOLEAN :
             /\ listener_queue' =
                   IF raised THEN listener_queue
                   ELSE [listener_queue EXCEPT
                            ![s] = Put(@, Dumps(Update(p, pub[p].n)))]
             /\ delivered' =
                   IF raised THEN delivered
                   ELSE [delivered EXCEPT ![s] = Append(@, Update(p, pub[p].n))]
             /\ pub' = [pub EXCEPT
                   ![p].listeners = @ \ {s},
                   ![p].disconnected = IF raised THEN @ \cup {s} ELSE @]
    /\ UNCHANGED <<processing_listeners, sse, finished, finished_before>>

\* state.py:126-129: the loop is over; the disconnected listeners are
\* removed under the lock and the call returns.
B_Return(p) ==
    /\ pub[p].pc = "send"
    /\ pub[p].listeners = {}
    /\ processing_listeners' = processing_listeners \ pub[p].disconnected
    /\ finished' = finished \cup { Update(p, pub[p].n) }
    /\ pub' = [pub EXCEPT ![p] = [@ EXCEPT !.pc = "idle", !.disconnected = {}]]
    /\ UNCHANGED <<listener_queue, sse, delivered, finished_before>>

busFrame == <<schedVars, stageVars, lockVars, storeVars, sweepVars, cacheVars,
              laterVars>>

InitBus ==
    /\ active_jobs = {}
    /\ processing_states_memory = << >>
    /\ hpc = [r \in Req |-> "idle"]
    /\ rcomp = [r \in Req |-> << >>]
    /\ rfiles = [r \in Req |-> << >>]
    /\ resp = [r \in Req |-> 0]
    /\ pool = << >>
    /\ running = {}
    /\ wk = [r \in Req |-> IdleWorker]
    /\ events = [r \in Req |-> << >>]
    /\ tracing = FALSE
    /\ StageIdle
    /\ AuxIdle

NextBus ==
    \/ \E s \in Subscribers : B_Subscribe(s) /\ UNCHANGED busFrame
    \/ \E s \in Subscribers : B_Get(s) /\ UNCHANGED busFrame
    \/ \E s \in Subscribers : B_Disconnect(s) /\ UNCHANGED busFrame
    \/ \E p \in Publishers : B_Notify(p) /\ UNCHANGED busFrame
    \/ \E p \in Publishers : B_Put(p) /\ UNCHANGED busFrame
    \/ \E p \in Publishers : B_Return(p) /\ UNCHANGED busFrame

SpecBus == InitBus /\ [][NextBus]_vars

(***************************************************************************)
(* SpecLock: a submission handler and the workers of two companies run     *)
(* their load-mutate-save sequences at the same time.                      *)
(***************************************************************************)
lockFrame == <<active_jobs, hpc, rcomp, rfiles, resp, pool, running, wk,
               events, tracing, stageVars, busVars, storeVars, sweepVars,
               cacheVars, laterVars>>

InitLock ==
    /\ active_jobs = Companies
    /\ processing_states_memory =
          QueueAll(QueueAll(<< >>, <<"A">>, <<FileA>>), <<"B">>, <<FileA>>)
    /\ hpc = [r \in Req |-> "idle"]
    /\ rcomp = [r \in Req |-> << >>]
    /\ rfiles = [r \in Req |-> << >>]
    /\ resp = [r \in Req |-> 0]
    /\ pool = << >>
    /\ running = {}
    /\ wk = [r \in Req |-> IdleWorker]
    /\ events = [r \in Req |-> << >>]
    /\ tracing = FALSE
    /\ StageIdle
    /\ BusIdle /\ StoreIdle /\ SweepIdle /\ CacheIdle /\ LaterIdle
    /\ processing_lock = "free"
    /\ last_written = << >>
    /\ \E c \in Companies, fs \in FileLists :
          th = [ t \in Threads |->
                   [ThreadIdle(t) EXCEPT
                       !.company_id = IF t = "handler" THEN c
                                      ELSE IF t = "workerA" THEN <<"A">>
                                      ELSE <<"B">>,
                       !.files = IF t = "handler" THEN fs ELSE <<FileA>>] ]

NextLock ==
    \/ \E t \in Threads : L_Acquire(t) /\ UNCHANGED lockFrame
    \/ \E t \in Threads : L_Load(t) /\ UNCHANGED lockFrame
    \/ \E t \in Threads : L_Mutate(t) /\ UNCHANGED lockFrame
    \/ \E t \in Threads : L_Save(t) /\ UNCHANGED lockFrame
    \/ \E t \in Threads : L_Release(t) /\ UNCHANGED lockFrame

SpecLock == InitLock /\ [][NextLock]_vars

(***************************************************************************)
(* SpecStore: save_processing_states and load_processing_states called on  *)
(* stores and maps of every shape.                                         *)
(***************************************************************************)
\* A state as the handler queues it and as the pipeline marks it.
StatesOf(company_id, file_name) ==
    { QueuedState(company_id, file_name),
      MarkProcessing(<< >>, company_id, file_name,
                     generate_document_id(company_id, file_name))
          [generate_document_id(company_id, file_name)] }

\* The maps that hold states of some files of the companies cs.
MapsOf(cs) ==
    LET pairs == cs \X FileNames
        id(p) == generate_document_id(p[1], p[2])
    IN  UNION { { [ d \in { id(p) : p \in ps } |->
                      LET p == CHOOSE q \in ps : id(q) = d
                      IN  IF p \in qs THEN QueuedState(p[1], p[2])
                          ELSE CHOOSE st \in StatesOf(p[1], p[2]) :
                                  st # QueuedState(p[1], p[2]) ]
                  : qs \in SUBSET ps }
              : ps \in SUBSET pairs }

storeFrame == <<active_jobs, hpc, rcomp, rfiles, resp, pool, running, wk,
                events, tracing, stageVars, busVars, lockVars, sweepVars,
                cacheVars, laterVars>>

InitStore ==
    /\ active_jobs = {}
    /\ processing_states_memory \in MapsOf(Companies)
    /\ hpc = [r \in Req |-> "idle"]
    /\ rcomp = [r \in Req |-> << >>]
    /\ rfiles = [r \in Req |-> << >>]
    /\ resp = [r \in Req |-> 0]
    /\ pool = << >>
    /\ running = {}
    /\ wk = [r \in Req |-> IdleWorker]
    /\ events = [r \in Req |-> << >>]
    /\ tracing = FALSE
    /\ StageIdle
    /\ AuxIdle

\* save_processing_states(company_id, states) followed by nothing else.
S_Save(company_id, states) ==
    /\ processing_states_memory' =
          save_processing_states(processing_states_memory, states)
    /\ last_save' = [ company_id |-> company_id, states |-> states,
                      before |-> processing_states_memory ]
    /\ UNCHANGED storeFrame

NextStore ==
    \E c \in Companies : \E states \in MapsOf({c}) : S_Save(c, states)

SpecStore == InitStore /\ [][NextStore]_vars

(***************************************************************************)
(* SpecSweep: app.py cleanup_old_processing_states at startup, file by     *)
(* file, on a directory of every content.                                  *)
(***************************************************************************)
\* File names as sequences of their parts.
LogFileA == << "A", ".", "json" >>
LogFileB == << "B", ".", "json" >>
BackupFile == << "A", ".", "json", ".", "bak" >>
DirNames == { LogFileA, LogFileB, BackupFile }

\* filename.endswith(suffix)
EndsWith(filename, suffix) ==
    /\ Len(filename) >= Len(suffix)
    /\ SubSeq(filename, Len(filename) - Len(suffix) + 1, Len(filename)) = suffix

\* The comparison of line 95.
IsOrphan_Inclusive(now, mtime) == now - mtime >= ORPHAN_THRESHOLD_SECONDS

IsOrphan(now, mtime) == now - mtime > ORPHAN_THRESHOLD_SECONDS

\* time.time() at startup and the modification times around the threshold.
StartupTime == ORPHAN_THRESHOLD_SECONDS + ORPHAN_THRESHOLD_SECONDS
Mtimes == { StartupTime - ORPHAN_THRESHOLD_SECONDS - 1,
            StartupTime - ORPHAN_THRESHOLD_SECONDS,
            StartupTime - ORPHAN_THRESHOLD_SECONDS + 1,
            StartupTime }

\* A file: its modification time, its content, and whether os.remove (or
\* os.path.getmtime) raises OSError for it.
DirFiles == [ mtime : Mtimes, content : { "states" }, oserror : BOOLEAN ]

Dirs ==
    UNION { [ ns -> DirFiles ] : ns \in SUBSET DirNames }

sweepFrame == <<schedVars, stageVars, busVars, lockVars, storeVars, cacheVars,
                laterVars>>

InitSweep ==
    /\ active_jobs = {}
    /\ processing_states_memory = << >>
    /\ hpc = [r \in Req |-> "idle"]
    /\ rcomp = [r \in Req |-> << >>]
    /\ rfiles = [r \in Req |-> << >>]
    /\ resp = [r \in Req |-> 0]
    /\ pool = << >>
    /\ running = {}
    /\ wk = [r \in Req |-> IdleWorker]
    /\ events = [r \in Req |-> << >>]
    /\ tracing = FALSE
    /\ StageIdle
    /\ BusIdle /\ LockIdle /\ StoreIdle /\ CacheIdle /\ LaterIdle
    /\ log_files \in Dirs
    /\ BackupFile \in DOMAIN log_files =>
          log_files[BackupFile].mtime = StartupTime - ORPHAN_THRESHOLD_SECONDS - 1
    /\ sweep = [ pc |-> "start", now |-> 0, todo |-> {}, before |-> log_files ]

\* Lines 90-92: now = time.time(); os.listdir.
W_List ==
    /\ sweep.pc = "start"
    /\ sweep' = [sweep EXCEPT !.pc = "loop", !.now = StartupTime,
                              !.todo = DOMAIN log_files]
    /\ UNCHANGED <<log_files, sweepFrame>>

\* Lines 92-99: one iteration of the loop (os.listdir gives the names in
\* any order).  An OSError is printed and the loop goes on.
W_File ==
    /\ sweep.pc = "loop"
    /\ \E filename \in sweep.todo :
          /\ log_files' =
                IF /\ EndsWith(filename, << ".", "json" >>)
                   /\ ~ log_files[filename].oserror
                   /\ IsOrphan(sweep.now, log_files[filename].mtime)
                THEN [ f \in (DOMAIN log_files) \ {filename} |-> log_files[f] ]
                ELSE log_files
          /\ sweep' = [sweep EXCEPT !.todo = @ \ {filename}]
    /\ UNCHANGED sweepFrame

\* The loop is over and the function returns.
W_Return ==
    /\ sweep.pc = "loop"
    /\ sweep.todo = {}
    /\ sweep' = [sweep EXCEPT !.pc = "done"]
    /\ UNCHANGED <<log_files, sweepFrame>>

NextSweep == W_List \/ W_File \/ W_Return

SpecSweep == InitSweep /\ [][NextSweep]_vars

Init ==
    /\ active_jobs = {}
    /\ processing_states_memory = << >>
    /\ hpc = [r \in Req |-> "idle"]
    /\ rcomp = [r \in Req |-> << >>]
    /\ rfiles = [r \in Req |-> << >>]
    /\ resp = [r \in Req |-> 0]
    /\ pool = << >>
    /\ running = {}
    /\ wk = [r \in Req |-> IdleWorker]
    /\ events = [r \in Req |-> << >>]
    /\ tracing = FALSE
    /\ StageIdle
    /\ AuxIdle

Handler(r) ==
    \/ HandlerBadRequest(r)
    \/ HandlerQueue(r)
    \/ HandlerCheck(r)
    \/ HandlerSubmit(r)
    \/ HandlerSubmitFails(r)

Pipeline(r) ==
    \/ P_FileMissing(r)
    \/ P_BeginFile(r)
    \/ P_OcrStep(r)
    \/ P_Finish(r)
    \/ P_Except(r)
    \/ P_Cleanup(r)

Stages(r) ==
    \/ S_Ocr(r)
    \/ S_Embed(r)
    \/ S_Ingest(r)

Worker(r) ==
    \/ WorkerStart(r)
    \/ Pipeline(r)
    \/ Stages(r)
    \/ W_Release(r)

Next == \E r \in Req : Handler(r) \/ Worker(r)

Spec == Init /\ [][Next]_vars

\* The event loop runs a handler to its response; the pool starts a queued
\* job when a thread is free and a worker thread keeps running.  The
\* arrival of requests is left to the clients.
FairSpec ==
    /\ Spec
    /\ \A r \in Req :
          /\ WF_vars(HandlerCheck(r) \/ HandlerSubmit(r) \/ HandlerSubmitFails(r))
          /\ WF_vars(Worker(r))

(***************************************************************************)
(* SpecOcr: ocr_pdf_pages statement by statement, called again and again   *)
(* for one document of company A as its batches are resubmitted; every     *)
(* pattern of failures of the rasteriser, the extraction service and the   *)
(* cache file.  The events of the call in progress are kept.               *)
(***************************************************************************)
\* The store as process_documents_pipeline leaves it at line 148.
AtOcrStage(company_id, file_name) ==
    LET doc_id == generate_document_id(company_id, file_name)
        m0 == save_processing_states(<< >>,
                  [ d \in {doc_id} |-> QueuedState(company_id, file_name) ])
        m1 == MarkProcessing(m0, company_id, file_name, doc_id)
    IN  MarkStepStarted(m1, company_id, doc_id, "ocr")

InitOcr ==
    /\ active_jobs = { <<"A">> }
    /\ processing_states_memory = AtOcrStage(<<"A">>, FileA)
    /\ hpc = [r \in Req |-> IF r = 1 THEN "done" ELSE "idle"]
    /\ rcomp = [r \in Req |-> IF r = 1 THEN <<"A">> ELSE << >>]
    /\ rfiles = [r \in Req |-> IF r = 1 THEN <<FileA>> ELSE << >>]
    /\ resp = [r \in Req |-> IF r = 1 THEN 202 ELSE 0]
    /\ pool = << >>
    /\ running = {1}
    /\ wk = [r \in Req |->
               IF r = 1
               THEN [IdleWorker EXCEPT !.pc = "ocr",
                        !.document_ids = <<generate_document_id(<<"A">>, FileA)>>]
               ELSE IdleWorker]
    /\ events = [r \in Req |-> << >>]
    /\ tracing = TRUE
    /\ deka_client \in BOOLEAN
    /\ pdf_pages \in [FileNames -> {-1} \cup (0..MaxPages)]
    /\ pdf_pages[FileB] = 0
    /\ cache = << >>
    /\ ocr = [r \in Req |-> OcrIdle]
    /\ ext_passes = [ q \in {get_ocr_cache_path(<<"A">>, FileA)} |-> 0 ]
    /\ faults = -1
    /\ passes = 1
    /\ VecIdle
    /\ AuxIdle

\* The batch is over and the document is submitted again: the pipeline
\* calls ocr_pdf_pages for it once more (processing_pipeline.py line 152).
O_Resubmitted(r) ==
    /\ wk[r].pc \in {"after_ocr", "except"}
    /\ passes < MaxPasses
    /\ passes' = passes + 1
    /\ wk' = [wk EXCEPT ![r] = [@ EXCEPT !.pc = "ocr", !.ocr_results = FALSE,
                                         !.ocr_pages_data = << >>]]
    /\ events' = [events EXCEPT ![r] = << >>]
    /\ ocr' = [ocr EXCEPT ![r] = OcrIdle]
    /\ UNCHANGED <<auxVars, active_jobs, processing_states_memory, hpc, rcomp, rfiles,
                   resp, pool, running, tracing, deka_client, pdf_pages,
                   cache, ext_passes, faults, vecVars>>

NextOcr ==
    \/ O_Start(1)
    \/ O_PageBegin(1)
    \/ O_Attempt(1)
    \/ O_Finish(1)
    \/ O_Resubmitted(1)

SpecOcr == InitOcr /\ [][NextOcr]_vars

(***************************************************************************)
(* SpecPipe: one accepted batch of company A taken through                 *)
(* process_documents_pipeline with every stage executor statement by       *)
(* statement; the events the pipeline yields are kept.  The documents, the *)
(* configuration, an artifact left by an earlier run and up to MaxFaults   *)
(* failures of the collaborators are chosen freely.                        *)
(***************************************************************************)
\* The artifact an earlier, faultless run left for a document of n pages.
Artifact(n) ==
    [ readable |-> TRUE, pages |-> [ k \in 1..n |-> PageResult(k, PageText(k)) ] ]

\* The batches of SpecPipe: those of Spec and one naming a file twice, which
\* takes the same (company, file) through the pipeline a second time.
PipeFileLists == FileLists \cup { <<FileA, FileA>> }

InitPipe ==
    /\ active_jobs = { <<"A">> }
    /\ hpc = [r \in Req |-> IF r = 1 THEN "done" ELSE "idle"]
    /\ rcomp = [r \in Req |-> IF r = 1 THEN <<"A">> ELSE << >>]
    /\ \E fs \in PipeFileLists :
          /\ rfiles = [r \in Req |-> IF r = 1 THEN fs ELSE << >>]
          /\ processing_states_memory = QueueAll(<< >>, <<"A">>, fs)
          /\ pdf_pages \in [FileNames -> {-1} \cup (0..MaxPages)]
          /\ pdf_pages[FileB] \in {-1, 1}
          /\ FileB \notin Range(fs) => pdf_pages[FileB] = 1
    /\ resp = [r \in Req |-> IF r = 1 THEN 202 ELSE 0]
    /\ pool = << >>
    /\ running = {1}
    /\ wk = [r \in Req |-> IF r = 1 THEN [IdleWorker EXCEPT !.pc = "loop"]
                                    ELSE IdleWorker]
    /\ events = [r \in Req |-> << >>]
    /\ tracing = TRUE
    /\ deka_client \in BOOLEAN
    /\ cache \in { << >>,
                   [ q \in {get_ocr_cache_path(<<"A">>, FileA)} |-> Artifact(MaxPages) ] }
    /\ ocr = [r \in Req |-> OcrIdle]
    /\ ext_passes = [ q \in { get_ocr_cache_path(<<"A">>, f) : f \in FileNames } |-> 0 ]
    /\ faults = MaxFaults
    /\ passes = 0
    /\ emb = [r \in Req |-> EmbIdle]
    /\ ing = [r \in Req |-> IngIdle]
    /\ qdrant \in { [ exists |-> e, points |-> << >> ] : e \in BOOLEAN }
    /\ AuxIdle

NextPipe ==
    \/ P_FileMissing(1)
    \/ P_BeginFile(1)
    \/ P_OcrStep(1)
    \/ O_Start(1)
    \/ O_PageBegin(1)
    \/ O_Attempt(1)
    \/ O_Finish(1)
    \/ P_AfterOcr(1)
    \/ E_Start(1)
    \/ E_Batch(1)
    \/ E_Finish(1)
    \/ P_AfterEmbed(1)
    \/ I_Start(1)
    \/ I_Batch(1)
    \/ I_Finish(1)
    \/ P_AfterIngest(1)
    \/ P_Structured(1)
    \/ P_Finish(1)
    \/ P_Except(1)
    \/ P_Cleanup(1)
    \/ W_Release(1)

SpecPipe == InitPipe /\ [][NextPipe]_vars

(***************************************************************************)
(* SpecCache: the OCR cache written and read for documents of companies    *)
(* whose identifiers hold characters that get_ocr_cache_path replaces.     *)
(***************************************************************************)
CacheCompanies ==
    Companies \cup { <<"A", ":">>, <<"A", "?">>, <<"A", "_">> }

\* ocr_service.py lines 110-129 on a cache directory: the pages of the
\* artifact, or a miss.
CacheGet(dir, company_id, source_name) ==
    LET path == get_ocr_cache_path(company_id, source_name)
    IN  IF path \in DOMAIN dir /\ dir[path].readable
        THEN [ hit |-> TRUE, pages |-> dir[path].pages ]
        ELSE [ hit |-> FALSE, pages |-> << >> ]

cacheFrame == <<schedVars, envVars, ocr, ext_passes, faults, vecVars,
                busVars, lockVars, storeVars, sweepVars, laterVars>>

InitCache ==
    /\ active_jobs = {}
    /\ processing_states_memory = << >>
    /\ hpc = [r \in Req |-> "idle"]
    /\ rcomp = [r \in Req |-> << >>]
    /\ rfiles = [r \in Req |-> << >>]
    /\ resp = [r \in Req |-> 0]
    /\ pool = << >>
    /\ running = {}
    /\ wk = [r \in Req |-> IdleWorker]
    /\ events = [r \in Req |-> << >>]
    /\ tracing = FALSE
    /\ StageIdle
    /\ AuxIdle

\* ocr_service.py lines 354-360 at the end of an OCR pass of n pages for
\* (company_id, source_name).
K_Put(company_id, source_name, n) ==
    /\ cache' = CacheWrite(get_ocr_cache_path(company_id, source_name),
                           Artifact(n).pages, "ok")
    /\ last_put' = [ company_id |-> company_id, source_name |-> source_name,
                     before |-> cache ]
    /\ UNCHANGED cacheFrame

NextCache ==
    \E c \in CacheCompanies, f \in FileNames, n \in 1..MaxPages : K_Put(c, f, n)

SpecCache == InitCache /\ [][NextCache]_vars

(***************************************************************************)
(* SpecRace: the workers of two companies inside ingest_to_qdrant at the   *)
(* same time, get_collection and create_collection call by call, on a      *)
(* vector index whose collection does not exist yet.                       *)
(***************************************************************************)
RaceWorkers == { "w1", "w2" }

RaceCompany(w) == IF w = "w1" THEN <<"A">> ELSE <<"B">>

\* str(create_error) of the errors create_collection raises: the answer of
\* the index to a second creation, and a transport error.
AlreadyExistsError == << "Wrong input: Collection", "already exists", "!" >>
TimeoutError == << "timed", "out" >>

\* Line 67: "already exists" in str(create_error)
IsAlreadyExists_Never(error) == FALSE

IsAlreadyExists(error) == \E i \in DOMAIN error : error[i] = "already exists"

RaceWorkerIdle(w, n) ==
    [ pc |-> "start",
      points_data |-> PointsData(generate_document_id(RaceCompany(w), FileA),
                                 Artifact(n).pages, n),
      i |-> 0, uploaded_count |-> 0, create_error |-> << >>, yielded |-> << >> ]

Yield(w, evs) == [rw EXCEPT ![w].yielded = @ \o evs]

raceFrame == <<schedVars, envVars, cache, ocr, ext_passes, faults, emb, ing,
               busVars, lockVars, storeVars, sweepVars, cacheVars, idxVars,
               holdVars, lastVars>>

InitRace ==
    /\ active_jobs = Companies
    /\ processing_states_memory = << >>
    /\ hpc = [r \in Req |-> "idle"]
    /\ rcomp = [r \in Req |-> << >>]
    /\ rfiles = [r \in Req |-> << >>]
    /\ resp = [r \in Req |-> 0]
    /\ pool = << >>
    /\ running = {}
    /\ wk = [r \in Req |-> IdleWorker]
    /\ events = [r \in Req |-> << >>]
    /\ tracing = FALSE
    /\ StageIdle
    /\ BusIdle /\ LockIdle /\ StoreIdle /\ SweepIdle /\ CacheIdle /\ IdxIdle
    /\ HoldIdle /\ LastIdle
    /\ creations = 0
    /\ \E n \in [RaceWorkers -> 1..MaxPages] :
          rw = [ w \in RaceWorkers |-> RaceWorkerIdle(w, n[w]) ]

\* Lines 34-44: ingestion_started.
R_Started(w) ==
    /\ rw[w].pc = "start"
    /\ rw' = [Yield(w, << Ev("ingestion_started", "", Len(rw[w].points_data)) >>)
                 EXCEPT ![w].pc = "get"]
    /\ UNCHANGED <<qdrant, creations, raceFrame>>

\* Lines 47-49: get_collection raises when the collection is not there
\* (and may raise when it is).
R_GetCollection(w) ==
    /\ rw[w].pc = "get"
    /\ \E raised \in BOOLEAN :
          /\ ~ qdrant.exists => raised
          /\ rw' = [rw EXCEPT ![w].pc = IF raised THEN "create" ELSE "batch"]
    /\ UNCHANGED <<qdrant, creations, raceFrame>>

\* Lines 51-73: create_collection.  The index creates the collection when
\* it is not there and answers AlreadyExistsError when it is; the call may
\* also fail on the way, once per worker.
R_CreateCollection(w) ==
    /\ rw[w].pc = "create"
    /\ \E lost \in BOOLEAN :
          LET error == IF lost THEN TimeoutError
                       ELSE IF qdrant.exists THEN AlreadyExistsError
                       ELSE << >>
          IN  /\ qdrant' = [qdrant EXCEPT !.exists = @ \/ error = << >>]
              /\ creations' = IF error = << >> THEN creations + 1 ELSE creations
              /\ rw' = IF error = << >>
                       THEN [Yield(w, << Ev("collection_created", "", 0) >>)
                                EXCEPT ![w].pc = "batch"]
                       ELSE IF IsAlreadyExists(error)
                       THEN [Yield(w, << Ev("collection_exists", "", 0) >>)
                                EXCEPT ![w].pc = "batch", ![w].create_error = error]
                       ELSE [Yield(w, << Ev("ingestion_failed", "", 0) >>)
                                EXCEPT ![w].pc = "done", ![w].create_error = error]
    /\ UNCHANGED raceFrame

\* Lines 78-124: one batch; the upsert succeeds on a collection that is
\* there.
R_Batch(w) ==
    /\ rw[w].pc = "batch"
    /\ rw[w].i < Len(rw[w].points_data)
    /\ qdrant.exists
    /\ LET hi == Min(rw[w].i + BATCH_SIZE, Len(rw[w].points_data))
           batch == SubSeq(rw[w].points_data, rw[w].i + 1, hi)
           batch_num == (rw[w].i \div BATCH_SIZE) + 1
       IN  /\ qdrant' = [qdrant EXCEPT !.points = Upsert(@, batch)]
           /\ rw' = [Yield(w, << Ev("ingestion_batch", "", batch_num),
                                 Ev("ingestion_batch_completed", "", batch_num) >>)
                        EXCEPT ![w].i = @ + BATCH_SIZE,
                               ![w].uploaded_count = @ + (hi - rw[w].i)]
    /\ UNCHANGED <<creations, raceFrame>>

\* Lines 134-144: ingestion_completed.
R_Finish(w) ==
    /\ rw[w].pc = "batch"
    /\ rw[w].i >= Len(rw[w].points_data)
    /\ rw' = [Yield(w, << Ev("ingestion_completed", "", rw[w].uploaded_count) >>)
                 EXCEPT ![w].pc = "done"]
    /\ UNCHANGED <<qdrant, creations, raceFrame>>

NextRace ==
    \E w \in RaceWorkers :
        \/ R_Started(w)
        \/ R_GetCollection(w)
        \/ R_CreateCollection(w)
        \/ R_Batch(w)
        \/ R_Finish(w)

SpecRace == InitRace /\ [][NextRace]_vars

(***************************************************************************)
(* Which locks a thread holds while it waits on an external service: the   *)
(* with blocks of app_fastapi.py, processing_pipeline.py, ocr_service.py   *)
(* and core/state.py, and the calls made between them.                     *)
(***************************************************************************)
\* The calls that leave the process and are waited on.
\*   "extraction"        ocr_service.py:216-252  deka_client...create
\*   "embedding"         embedding_service.py:92  embedder.embed_documents
\*   "vector index"      qdrant_service.py:106-110  qdrant_client.upsert
\*   "relational store"  processing_pipeline.py:316-336  get_db_connection,
\*                       cur.execute, index_single_document
ExternalCalls == { "extraction", "embedding", "vector index", "relational store" }

\* with processing_lock: load_processing_states, the updates of the loaded
\* map, save_processing_states.
LoadMutateSave == << "with processing_lock", "load", "mutate", "save", "end with" >>

\* ocr_service.py:197-199: the block that only reads current_file.
LoadOnly == << "with processing_lock", "load", "end with" >>

\* core/state.py:98-104 cleanup_processing_state: the block that pops.
Pop == << "with processing_lock", "mutate", "end with" >>

\* with active_jobs_lock: the membership test, add or discard.
JobsSection == << "with active_jobs_lock", "jobs", "end jobs" >>

\* app_fastapi.py:441-468 get_processing_queue_status: the set is read
\* under active_jobs_lock, then the store is copied under processing_lock.
StatusReader == JobsSection \o Pop

\* app_fastapi.py:503-521 event_stream: the queue is added under
\* processing_lock, events are taken from it, the finally clause discards
\* it under processing_lock.
EventStream == Pop \o Pop

\* The statements of a thread, for one document of one file: the handler
\* queues the states (app_fastapi.py:339-367) and registers the company
\* (393-410); a worker runs the pipeline and then its finally block
\* (387-391).
Statements(t) ==
    IF t = "handler" THEN LoadMutateSave \o JobsSection
    ELSE IF t = "reader" THEN StatusReader
    ELSE IF t = "subscriber" THEN EventStream
    ELSE    LoadMutateSave              \* processing_pipeline.py:77-113
         \o LoadMutateSave              \* processing_pipeline.py:125-142
         \o LoadMutateSave              \* ocr_service.py:159-174
         \o LoadOnly                    \* ocr_service.py:197-199
         \o << "extraction" >>          \* ocr_service.py:216-252
         \o LoadMutateSave              \* ocr_service.py:276-289
         \o LoadMutateSave              \* processing_pipeline.py:198-215
         \o << "embedding" >>           \* processing_pipeline.py:225-226
         \o LoadMutateSave              \* processing_pipeline.py:253-270
         \o << "vector index" >>        \* processing_pipeline.py:278-279
         \o LoadMutateSave              \* processing_pipeline.py:282-294
         \o << "relational store" >>    \* processing_pipeline.py:316-336
         \o LoadMutateSave              \* processing_pipeline.py:350-366
         \o Pop                         \* processing_pipeline.py:405-410
         \o JobsSection                 \* app_fastapi.py:387-391

\* Where a worker goes on when a stage has failed: the block that records
\* the outcome (processing_pipeline.py:163-170, 236-243, 380-401), which is
\* followed by the clean-up and the finally block.
Recovery(t) == Len(Statements(t)) - Len(LoadMutateSave \o Pop \o JobsSection) + 1

\* Leaving a with block releases the lock.
Exit_Held(lock, t) == lock

Exit(lock, t) == IF lock = t THEN "free" ELSE lock

Statement(t) ==
    IF hd[t].pc \in DOMAIN Statements(t) THEN Statements(t)[hd[t].pc] ELSE "return"

holdFrame == <<schedVars, envVars, cache, ocr, ext_passes, faults, emb, ing,
               qdrant, busVars, th, last_written, storeVars, sweepVars,
               cacheVars, raceVars, idxVars, lastVars>>

InitHold ==
    /\ active_jobs = {}
    /\ processing_states_memory = << >>
    /\ hpc = [r \in Req |-> "idle"]
    /\ rcomp = [r \in Req |-> << >>]
    /\ rfiles = [r \in Req |-> << >>]
    /\ resp = [r \in Req |-> 0]
    /\ pool = << >>
    /\ running = {}
    /\ wk = [r \in Req |-> IdleWorker]
    /\ events = [r \in Req |-> << >>]
    /\ tracing = FALSE
    /\ StageIdle
    /\ BusIdle /\ LockIdle /\ StoreIdle /\ SweepIdle /\ CacheIdle
    /\ RaceIdle /\ IdxIdle /\ LastIdle
    /\ active_jobs_lock = "free"
    /\ hd = [ t \in Threads |-> [ pc |-> 1, waiting |-> "none" ] ]

\* with processing_lock: (threading.RLock)
H_Enter(t) ==
    /\ Statement(t) = "with processing_lock"
    /\ CanAcquire(processing_lock, t)
    /\ processing_lock' = t
    /\ hd' = [hd EXCEPT ![t].pc = @ + 1]
    /\ UNCHANGED <<active_jobs_lock, holdFrame>>

\* A statement of the block; load_processing_states and
\* save_processing_states take the lock again.
H_Step(t) ==
    /\ Statement(t) \in { "load", "mutate", "save" }
    /\ Statement(t) \in { "load", "save" } => CanAcquire(processing_lock, t)
    /\ hd' = [hd EXCEPT ![t].pc = @ + 1]
    /\ UNCHANGED <<processing_lock, active_jobs_lock, holdFrame>>

H_Exit(t) ==
    /\ Statement(t) = "end with"
    /\ processing_lock' = Exit(processing_lock, t)
    /\ hd' = [hd EXCEPT ![t].pc = @ + 1]
    /\ UNCHANGED <<active_jobs_lock, holdFrame>>

\* with active_jobs_lock: (threading.Lock)
H_EnterJobs(t) ==
    /\ Statement(t) = "with active_jobs_lock"
    /\ active_jobs_lock = "free"
    /\ active_jobs_lock' = t
    /\ hd' = [hd EXCEPT ![t].pc = @ + 1]
    /\ UNCHANGED <<processing_lock, holdFrame>>

H_Jobs(t) ==
    /\ Statement(t) = "jobs"
    /\ hd' = [hd EXCEPT ![t].pc = @ + 1]
    /\ UNCHANGED <<processing_lock, active_jobs_lock, holdFrame>>

H_ExitJobs(t) ==
    /\ Statement(t) = "end jobs"
    /\ active_jobs_lock' = Exit(active_jobs_lock, t)
    /\ hd' = [hd EXCEPT ![t].pc = @ + 1]
    /\ UNCHANGED <<processing_lock, holdFrame>>

\* The request is sent; the thread waits for the answer.
H_Call(t) ==
    /\ Statement(t) \in ExternalCalls
    /\ hd[t].waiting = "none"
    /\ hd' = [hd EXCEPT ![t].waiting = Statement(t)]
    /\ UNCHANGED <<processing_lock, active_jobs_lock, holdFrame>>

\* The answer or an error arrives.  A failure of the structured indexing
\* is only printed (processing_pipeline.py:346-347).
H_Return(t) ==
    /\ hd[t].waiting # "none"
    /\ \E ok \in BOOLEAN :
          hd' = [hd EXCEPT ![t].waiting = "none",
                           ![t].pc = IF ok \/ hd[t].waiting = "relational store"
                                     THEN @ + 1 ELSE Recovery(t)]
    /\ UNCHANGED <<processing_lock, active_jobs_lock, holdFrame>>

NextHold ==
    \E t \in Threads :
       \/ H_Enter(t)
       \/ H_Step(t)
       \/ H_Exit(t)
       \/ H_EnterJobs(t)
       \/ H_Jobs(t)
       \/ H_ExitJobs(t)
       \/ H_Call(t)
       \/ H_Return(t)

SpecHold == InitHold /\ [][NextHold]_vars

(***************************************************************************)
(* The same statements with the status reader and an event subscriber      *)
(* beside the submission handler and the pool workers.                     *)
(***************************************************************************)
AllThreads == Threads \cup { "reader", "subscriber" }

InitThreads ==
    /\ active_jobs = {}
    /\ processing_states_memory = << >>
    /\ hpc = [r \in Req |-> "idle"]
    /\ rcomp = [r \in Req |-> << >>]
    /\ rfiles = [r \in Req |-> << >>]
    /\ resp = [r \in Req |-> 0]
    /\ pool = << >>
    /\ running = {}
    /\ wk = [r \in Req |-> IdleWorker]
    /\ events = [r \in Req |-> << >>]
    /\ tracing = FALSE
    /\ StageIdle
    /\ BusIdle /\ LockIdle /\ StoreIdle /\ SweepIdle /\ CacheIdle
    /\ RaceIdle /\ IdxIdle /\ LastIdle
    /\ active_jobs_lock = "free"
    /\ hd = [ t \in AllThreads |-> [ pc |-> 1, waiting |-> "none" ] ]

NextThreads ==
    \E t \in AllThreads :
       \/ H_Enter(t)
       \/ H_Step(t)
       \/ H_Exit(t)
       \/ H_EnterJobs(t)
       \/ H_Jobs(t)
       \/ H_ExitJobs(t)
       \/ H_Call(t)
       \/ H_Return(t)

SpecThreads == InitThreads /\ [][NextThreads]_vars

(***************************************************************************)
(* core/state.py generate_document_id as the key of the progress store:    *)
(* two submissions of one file each, their company ids and file names      *)
(* drawn from the strings over a letter and the separator, are queued by   *)
(* the handler and cleaned up by the pipeline's finally clause.            *)
(***************************************************************************)
\* The longest company id and file name drawn.
MaxIdLen == 2

IdChars == { "a", ":" }

IdStrings == UNION { [ 1..n -> IdChars ] : n \in 1..MaxIdLen }

Submissions == 1..2

docFrame == <<active_jobs, hpc, rcomp, rfiles, resp, pool, running, wk, events,
              tracing, stageVars, busVars, lockVars, storeVars, sweepVars,
              cacheVars, raceVars, idxVars, holdVars, snap>>

InitDocId ==
    /\ active_jobs = {}
    /\ processing_states_memory = << >>
    /\ hpc = [r \in Req |-> "idle"]
    /\ rcomp = [r \in Req |-> << >>]
    /\ rfiles = [r \in Req |-> << >>]
    /\ resp = [r \in Req |-> 0]
    /\ pool = << >>
    /\ running = {}
    /\ wk = [r \in Req |-> IdleWorker]
    /\ events = [r \in Req |-> << >>]
    /\ tracing = FALSE
    /\ StageIdle
    /\ BusIdle /\ LockIdle /\ StoreIdle /\ SweepIdle /\ CacheIdle
    /\ RaceIdle /\ IdxIdle /\ HoldIdle
    /\ snap = << >>
    /\ \E c1 \in IdStrings, f1 \in IdStrings, c2 \in IdStrings, f2 \in IdStrings :
          dq = [ pairs |-> << [ company_id |-> c1, file_name |-> f1 ],
                              [ company_id |-> c2, file_name |-> f2 ] >>,
                 queued |-> {}, cleaned |-> {} ]

\* app_fastapi.py:338-366 for a request that names one file.
D_Queue(i) ==
    /\ i \notin dq.queued
    /\ LET c == dq.pairs[i].company_id
           f == dq.pairs[i].file_name
       IN  processing_states_memory' =
              save_processing_states(processing_states_memory,
                  QueueAll(load_processing_states(processing_states_memory, c),
                           c, << f >>))
    /\ dq' = [dq EXCEPT !.queued = @ \cup {i}]
    /\ UNCHANGED docFrame

\* processing_pipeline.py:72-73, 407-410: the pipeline computes the doc_id
\* of its file again and its finally clause removes that key.
D_Cleanup(i) ==
    /\ i \in dq.queued
    /\ i \notin dq.cleaned
    /\ processing_states_memory' =
          cleanup_processing_state(processing_states_memory,
              generate_document_id(dq.pairs[i].company_id, dq.pairs[i].file_name))
    /\ dq' = [dq EXCEPT !.cleaned = @ \cup {i}]
    /\ UNCHANGED docFrame

NextDocId ==
    \E i \in Submissions :
       \/ D_Queue(i)
       \/ D_Cleanup(i)

SpecDocId == InitDocId /\ [][NextDocId]_vars

(***************************************************************************)
(* Structured extraction: manual_indexer.py (index_single_document, the    *)
(* pipeline's back-fill; index_company_worker, the full index job),        *)
(* services/indexing_service.py and db_utils.py insert_extracted_data.     *)
(***************************************************************************)
\* The registered fields.
IndexNames == { "f1", "f2" }

\* The company whose cached documents are indexed.
IdxCompany == << "A" >>

\* Optional[str]: None, or a string.
None == << >>
Some(v) == << v >>

\* What the extraction service may answer (message.content): nothing,
\* white space, the agreed N/A in either case, a value.
Replies == { "", " ", "N/A", "n/a", "v1" }

\* str.strip() and str.lower() on these answers.
Strip(s) == IF s = " " THEN "" ELSE s
Lower(s) == IF s = "N/A" THEN "n/a" ELSE s

\* manual_indexer.py:23-69: None without a client, on an exception and on
\* an answer that is n/a in any case; every other answer as it is, once
\* stripped.
call_llm_for_extraction(client, raised, content) ==
    IF ~client \/ raised THEN None
    ELSE IF Lower(Strip(content)) = "n/a" THEN None
    ELSE Some(Strip(content))

\* services/indexing_service.py:21-66: None without a client, on an
\* exception and on an answer that is empty once stripped.
service_call_llm_for_extraction(client, raised, content) ==
    IF ~client \/ raised THEN None
    ELSE IF Strip(content) # "" THEN Some(Strip(content))
    ELSE None

\* os.path.join(project_root, "backend", "ocr_cache", company_name,
\* f"{file_name}.json") of manual_indexer.py:83.
IndexCachePath(company_name, file_name) ==
    company_name \o << "/" >> \o file_name \o << ".json" >>

\* os.listdir(company_cache_dir) of manual_indexer.py:155.
ListDir(company_name) ==
    { SubSeq(q, Len(company_name) + 2, Len(q)) :
        q \in { q \in DOMAIN cache :
                  /\ Len(q) > Len(company_name) + 1
                  /\ SubSeq(q, 1, Len(company_name) + 1) = company_name \o << "/" >> } }

\* db_utils.py:85-86: sha256 of f"{company_name}-{doc_filename}"; the hash
\* is taken as injective on the string that is hashed, which is what is
\* kept here.
DocumentId(company_name, doc_filename) == company_name \o << "-" >> \o doc_filename

\* db_utils.py:78-107: records_to_insert.  company_results maps a document
\* file name to None or to its result.
RecordsToInsert(company_name, company_results) ==
    { [ document_id |-> DocumentId(company_name, d),
        company_name |-> company_name,
        file_name |-> d,
        index_name |-> company_results[d][1].index_name,
        result |-> company_results[d][1] ] :
      d \in { d \in DOMAIN company_results :
                /\ company_results[d] # None
                /\ company_results[d][1].value # None
                /\ company_results[d][1].index_name # "" } }

\* db_utils.py:62-66, 113-117: INSERT ... ON CONFLICT (document_id,
\* index_name) DO NOTHING, on the table's UNIQUE (document_id, index_name).
insert_extracted_data(rows, company_name, company_results) ==
    rows \cup { rec \in RecordsToInsert(company_name, company_results) :
                  ~ \E row \in rows : /\ row.document_id = rec.document_id
                                      /\ row.index_name = rec.index_name }

\* What the database may do with a run's insertion: get_db_connection
\* returns None (db_utils.py:32-34), execute_values raises and the
\* transaction is rolled back (118-120), or the rows are committed.
DbOutcomes == { "ok", "no_connection", "insert_failed" }

\* No run is in progress; runs: the runs started so far.
IxIdle(runs) ==
    [ pc |-> "idle", kind |-> "", index_name |-> "", todo |-> {},
      doc |-> << >>, ocr_pages |-> << >>, i |-> 0,
      asked |-> << >>, replies |-> << >>,
      extracted_value |-> None, found_on_page |-> 0,
      company_results |-> << >>, runs |-> runs ]

\* The locals at the head of the page loop over one document
\* (manual_indexer.py:95-97, 175-177).
Scanning(x, doc, pages) ==
    [ x EXCEPT !.doc = doc, !.ocr_pages = pages, !.i = 0,
               !.asked = << >>, !.replies = << >>,
               !.extracted_value = None, !.found_on_page = 0,
               !.pc = IF pages = << >> THEN "scanned" ELSE "scan" ]

\* result_data of manual_indexer.py:118-122, 196-200.
ResultData(x) ==
    [ value |-> x.extracted_value, page |-> x.found_on_page,
      index_name |-> x.index_name ]

idxFrame == <<schedVars, envVars, cache, ocr, ext_passes, faults, emb, ing,
              qdrant, busVars, lockVars, storeVars, sweepVars, cacheVars,
              raceVars, holdVars, lastVars>>

InitIdx ==
    /\ active_jobs = {}
    /\ processing_states_memory = << >>
    /\ hpc = [r \in Req |-> "idle"]
    /\ rcomp = [r \in Req |-> << >>]
    /\ rfiles = [r \in Req |-> << >>]
    /\ resp = [r \in Req |-> 0]
    /\ pool = << >>
    /\ running = {}
    /\ wk = [r \in Req |-> IdleWorker]
    /\ events = [r \in Req |-> << >>]
    /\ tracing = FALSE
    /\ deka_client \in BOOLEAN
    /\ pdf_pages = [f \in FileNames |-> 1]
    /\ passes = 0
    /\ \E n \in 0..MaxPages, b \in { "absent", "unreadable", "readable" } :
          cache = [ q \in { IndexCachePath(IdxCompany, FileA) }
                          \cup (IF b = "absent" THEN {}
                                ELSE { IndexCachePath(IdxCompany, FileB) }) |->
                      IF q = IndexCachePath(IdxCompany, FileA) THEN Artifact(n)
                      ELSE [ Artifact(1) EXCEPT !.readable = (b = "readable") ] ]
    /\ ocr = [r \in Req |-> OcrIdle]
    /\ ext_passes = << >>
    /\ faults = 0
    /\ emb = [r \in Req |-> EmbIdle]
    /\ ing = [r \in Req |-> IngIdle]
    /\ qdrant = [ exists |-> FALSE, points |-> << >> ]
    /\ BusIdle /\ LockIdle /\ StoreIdle /\ SweepIdle /\ CacheIdle
    /\ RaceIdle /\ HoldIdle /\ LastIdle
    /\ extracted_data = {}
    /\ ix = IxIdle(0)

\* index_single_document(company_name, file_name, index_name) of
\* manual_indexer.py:73-92 ("single") or of services/indexing_service.py:
\* 69-88 ("service"): the artifact is looked up and read.  A missing
\* artifact ends the run with a warning, an unreadable one with the
\* exception caught at line 132.
X_StartSingle(kind, file_name, index_name) ==
    /\ ix.pc = "idle"
    /\ ix.runs < MaxRuns
    /\ LET cache_path == IndexCachePath(IdxCompany, file_name)
           x == [ IxIdle(ix.runs + 1) EXCEPT !.kind = kind,
                                             !.index_name = index_name ]
       IN  ix' = IF cache_path \in DOMAIN cache /\ cache[cache_path].readable
                 THEN Scanning(x, file_name, cache[cache_path].pages)
                 ELSE IxIdle(ix.runs + 1)
    /\ UNCHANGED <<extracted_data, idxFrame>>

\* index_company_worker(company_name, index_name, ...) of
\* manual_indexer.py:138-163: the documents are the .json entries of the
\* company's cache directory.
X_StartCompany(index_name) ==
    /\ ix.pc = "idle"
    /\ ix.runs < MaxRuns
    /\ LET document_files ==
              { f \in ListDir(IdxCompany) : EndsWith(f, << ".json" >>) }
       IN  ix' = IF document_files = {}
                 THEN IxIdle(ix.runs + 1)
                 ELSE [ IxIdle(ix.runs + 1) EXCEPT !.kind = "company",
                                                   !.index_name = index_name,
                                                   !.todo = document_files,
                                                   !.pc = "next_doc" ]
    /\ UNCHANGED <<extracted_data, idxFrame>>

\* manual_indexer.py:165-176: the next entry of the directory, in the order
\* os.listdir gives.  An entry json.load rejects is recorded as None.
X_NextDoc ==
    /\ ix.pc = "next_doc"
    /\ \E doc_filename \in ix.todo :
          LET cache_path == IdxCompany \o << "/" >> \o doc_filename
              rest == [ ix EXCEPT !.todo = @ \ { doc_filename } ]
          IN  ix' = IF cache[cache_path].readable
                    THEN Scanning(rest, doc_filename, cache[cache_path].pages)
                    ELSE [ rest EXCEPT
                             !.company_results = (doc_filename :> None) @@ @,
                             !.pc = IF rest.todo = {} THEN "insert"
                                                      ELSE "next_doc" ]
    /\ UNCHANGED <<extracted_data, idxFrame>>

\* manual_indexer.py:97-108, 177-188: one turn of the page loop.  asked and
\* replies keep the pages for which the service was called and what it did.
X_Ask ==
    /\ ix.pc = "scan"
    /\ LET page_data == ix.ocr_pages[ix.i + 1]
       IN  \E raised \in BOOLEAN, content \in Replies :
             /\ raised => content = ""
             /\ LET llm_response ==
                       IF ix.kind = "service"
                       THEN service_call_llm_for_extraction(deka_client, raised, content)
                       ELSE call_llm_for_extraction(deka_client, raised, content)
                    called == [ ix EXCEPT
                                  !.asked = IF deka_client
                                            THEN Append(@, page_data.page) ELSE @,
                                  !.replies = IF deka_client
                                              THEN Append(@, [ raised |-> raised,
                                                               content |-> content ])
                                              ELSE @ ]
                IN  ix' = IF llm_response # None
                          THEN [ called EXCEPT !.extracted_value = llm_response,
                                               !.found_on_page = page_data.page,
                                               !.pc = "scanned" ]
                          ELSE [ called EXCEPT
                                   !.i = @ + 1,
                                   !.pc = IF ix.i + 1 = Len(ix.ocr_pages)
                                          THEN "scanned" ELSE "scan" ]
    /\ UNCHANGED <<extracted_data, idxFrame>>

\* After the page loop.  manual_indexer.py:110-130: the back-fill inserts
\* its one result when a value was found and a connection is there.
\* services/indexing_service.py:120-127: the import of insert_extracted_data
\* from core.database, which does not define it, raises.
\* manual_indexer.py:190-200: the job keeps the result of a document in
\* which a value was found and goes to the next document.
X_Store ==
    /\ ix.pc = "scanned"
    /\ IF ix.kind = "single"
       THEN \E db \in DbOutcomes :
              /\ extracted_data' =
                    IF db = "ok" /\ ix.extracted_value # None
                    THEN insert_extracted_data(extracted_data, IdxCompany,
                                               (ix.doc :> Some(ResultData(ix))))
                    ELSE extracted_data
              /\ ix' = IxIdle(ix.runs)
       ELSE IF ix.kind = "service"
       THEN /\ ix' = IxIdle(ix.runs)
            /\ UNCHANGED extracted_data
       ELSE /\ ix' = [ ix EXCEPT
                         !.company_results =
                             IF ix.extracted_value # None
                             THEN (ix.doc :> Some(ResultData(ix))) @@ @
                             ELSE @,
                         !.pc = IF ix.todo = {} THEN "insert" ELSE "next_doc" ]
            /\ UNCHANGED extracted_data
    /\ UNCHANGED idxFrame

\* manual_indexer.py:202-213: the job's insertion of all its results.
X_Insert ==
    /\ ix.pc = "insert"
    /\ \E db \in DbOutcomes :
          extracted_data' =
             IF db = "ok"
             THEN insert_extracted_data(extracted_data, IdxCompany,
                                        ix.company_results)
             ELSE extracted_data
    /\ ix' = IxIdle(ix.runs)
    /\ UNCHANGED idxFrame

NextIdx ==
    \/ \E kind \in { "single", "service" }, f \in FileNames, n \in IndexNames :
          X_StartSingle(kind, f, n)
    \/ \E n \in IndexNames : X_StartCompany(n)
    \/ X_NextDoc
    \/ X_Ask
    \/ X_Store
    \/ X_Insert

SpecIdx == InitIdx /\ [][NextIdx]_vars

(***************************************************************************)
(* The submission handler with the progress store remembered as it was     *)
(* when the handler began (app_fastapi.py, process_documents).             *)
(***************************************************************************)
\* Lines 338-366, as HandlerQueue; snap keeps the store the handler found.
J_Queue(r) ==
    /\ NextRequest(r)
    /\ \E c \in Companies, fs \in FileLists :
          /\ rcomp' = [rcomp EXCEPT ![r] = c]
          /\ rfiles' = [rfiles EXCEPT ![r] = fs]
          /\ processing_states_memory' =
                save_processing_states(processing_states_memory,
                    QueueAll(load_processing_states(processing_states_memory, c),
                             c, fs))
    /\ snap' = (r :> processing_states_memory) @@ snap
    /\ hpc' = [hpc EXCEPT ![r] = "check"]
    /\ UNCHANGED <<busVars, lockVars, storeVars, sweepVars, cacheVars, raceVars,
                   idxVars, holdVars, dq, active_jobs, resp, pool, running, wk,
                   events, tracing, stageVars>>

NextReject ==
    \E r \in Req :
       \/ HandlerBadRequest(r)
       \/ J_Queue(r)
       \/ HandlerCheck(r)
       \/ HandlerSubmit(r)
       \/ HandlerSubmitFails(r)
       \/ Worker(r)

SpecReject == Init /\ [][NextReject]_vars

(***************************************************************************)
(* Properties of the scheduler.                                            *)
(***************************************************************************)
\* A batch is active from the step that adds its company to active_jobs to
\* the step that discards it.
IsActiveBatch(r) == hpc[r] = "submit" \/ r \in Range(pool) \/ r \in running

\* The batches whose worker is inside process_documents_pipeline.
Executing == { r \in Req : wk[r].pc \notin {"none", "done"} }

C1_AtMostOneActive ==
    \A c \in Companies :
        Cardinality({ r \in Req : IsActiveBatch(r) /\ rcomp[r] = c }) <= 1

C1_ActiveSetExact ==
    active_jobs = { rcomp[r] : r \in { q \in Req : IsActiveBatch(q) } }

C1_RejectedStartsNoWorker ==
    \A r \in Req :
        resp[r] = 409 => /\ wk[r].pc = "none"
                         /\ r \notin Range(pool)
                         /\ r \notin running

C1_RejectStep ==
    \A r \in Req :
        (hpc[r] = "check" /\ rcomp[r] \in active_jobs /\ hpc'[r] # "check")
        => /\ resp'[r] = 409
           /\ hpc'[r] = "done"
           /\ pool' = pool /\ running' = running /\ wk' = wk
           /\ active_jobs' = active_jobs

\* C1: under every interleaving of submissions and worker completions at
\* most one batch per company is active (accepted, not yet released), the
\* active set names exactly the companies of the active batches, and a
\* submission whose company is in the active set is answered 409 and
\* starts no worker.
Thm_C1_OneActiveBatchPerCompany ==
    /\ [](C1_AtMostOneActive /\ C1_ActiveSetExact /\ C1_RejectedStartsNoWorker)
    /\ [][C1_RejectStep]_vars

\* A second submission of a company is answered 409 while the first one's
\* worker is running.
Wit_C1_DuplicateRejected ==
    \E r1, r2 \in Req :
        /\ r1 # r2
        /\ rcomp[r1] = rcomp[r2]
        /\ r1 \in running
        /\ resp[r2] = 409

C2_Released ==
    \A r \in Req :
        (hpc[r] = "submit") ~> (hpc[r] = "done" /\ ~IsActiveBatch(r))

C2_Runs ==
    \A r \in Req :
        /\ (r \in Range(pool)) ~> (r \in running)
        /\ (r \in running) ~> (wk[r].pc = "done")

C2_SlotFreed ==
    \A r \in Req : \A c \in Companies :
        (IsActiveBatch(r) /\ rcomp[r] = c) ~> (c \notin active_jobs)

C2_ReleaseStep ==
    \A r \in Req :
        (IsActiveBatch(r) /\ ~IsActiveBatch(r)') => rcomp[r] \notin active_jobs'

\* C2: every accepted submission is eventually released: a queued job
\* eventually runs, a running one ends (all_completed or process_error),
\* a failed hand-over to the pool gives the slot back, and the step that
\* ends the batch leaves the company outside the active set, so that the
\* next check of that company accepts.
Thm_C2_EveryAcceptedBatchReleased ==
    /\ C2_Released
    /\ C2_Runs
    /\ C2_SlotFreed
    /\ [][C2_ReleaseStep]_vars

\* A batch has ended and a later submission of the same company is active.
Wit_C2_AcceptedAfterRelease ==
    \E r1, r2 \in Req :
        /\ r1 # r2
        /\ rcomp[r1] = rcomp[r2]
        /\ wk[r1].pc = "done"
        /\ IsActiveBatch(r2)

C3_PoolBound == Cardinality(Executing) <= MAX_CONCURRENT_JOBS

C3_AcceptedIsQueuedOrStarted ==
    \A r \in Req :
        resp[r] = 202 => (r \in Range(pool) \/ wk[r].pc # "none")

C3_AcceptStep ==
    \A r \in Req :
        (hpc[r] = "check" /\ rcomp[r] \notin active_jobs /\ hpc'[r] # "check")
        => /\ hpc'[r] = "submit"
           /\ resp'[r] = 0
           /\ rcomp[r] \in active_jobs'

C3_SubmitStep ==
    \A r \in Req :
        (hpc[r] = "submit" /\ resp'[r] = 202)
        => (pool' = Append(pool, r) /\ running' = running)

\* C3: never more than MAX_CONCURRENT_JOBS batches execute the pipeline;
\* the check of a company that is not active accepts it whatever the load
\* is, and the accepted job is appended to the pool's queue, where it
\* waits while every worker is busy.
Thm_C3_PoolBoundAndNoLoadRejection ==
    /\ [](C3_PoolBound /\ C3_AcceptedIsQueuedOrStarted)
    /\ [][C3_AcceptStep /\ C3_SubmitStep]_vars

\* Every worker is busy and an accepted (202) job waits in the queue.
Wit_C3_QueuedBehindBusyPool ==
    \E r \in Req :
        /\ r \in Range(pool)
        /\ resp[r] = 202
        /\ Cardinality(Executing) = MAX_CONCURRENT_JOBS

\* C4 (as claimed): the status of a DocumentJob in the store only moves
\* forward, queued -> processing -> {completed, failed}: a processing job
\* never returns to queued, a completed or failed job never returns to
\* queued or processing.
Cex_C4_StatusMonotone ==
    [][ \A d \in (DOMAIN processing_states_memory)
                   \cap (DOMAIN processing_states_memory') :
           LET s == Status(processing_states_memory[d])
               t == Status(processing_states_memory'[d])
           IN  /\ (s = "processing" => t # "queued")
               /\ (s \in {"completed", "failed"} => t \notin {"queued", "processing"})
      ]_vars

(***************************************************************************)
(* Properties of ocr_pdf_pages (SpecOcr).                                  *)
(***************************************************************************)
DocPath == get_ocr_cache_path(<<"A">>, FileA)

\* The artifact of the document is a file that json.load reads.
ArtifactReadable == DocPath \in DOMAIN cache /\ cache[DocPath].readable

RECURSIVE SumSeq(_)
SumSeq(q) == IF q = << >> THEN 0 ELSE Head(q) + SumSeq(Tail(q))

\* The extraction calls the call of ocr_pdf_pages in progress has made.
RECURSIVE TotalCalls(_)
TotalCalls(stats) ==
    IF stats = << >> THEN 0 ELSE Head(stats).calls + TotalCalls(Tail(stats))

EventsOf(status, page) ==
    LET Test(e) == e.status = status /\ e.page = page
    IN  SelectSeq(events[1], Test)

\* The call returned through the cache branch.
AnsweredFromCache == wk[1].pc = "after_ocr" /\ ocr[1].from_cache

C7_CacheHitReplaysArtifact ==
    AnsweredFromCache =>
        /\ ArtifactReadable
        /\ LET pages == cache[DocPath].pages
           IN  /\ events[1] = << Ev("started", "", 0),
                                 EvCompleted(Len(pages), 0, Len(pages), pages) >>
               /\ wk[1].ocr_results
               /\ wk[1].ocr_pages_data = pages
        /\ ocr[1].stats = << >>
        /\ ~ocr[1].called

C7_NoCallWhileArtifactReadable ==
    ArtifactReadable =>
        /\ ext_passes' = ext_passes
        /\ TotalCalls(ocr'[1].stats) <= TotalCalls(ocr[1].stats)

\* C7 (amended): when a readable cache artifact exists for the document,
\* ocr_pdf_pages emits started and then completed carrying exactly the
\* stored pages and makes no extraction call; hence, from the moment a call
\* has stored a readable artifact, no later call for the document invokes
\* the extraction service.
Thm_C7_ReadableArtifactShortCircuits ==
    /\ [] C7_CacheHitReplaysArtifact
    /\ [][C7_NoCallWhileArtifactReadable]_vars

\* A later call for the document is answered from the artifact an earlier
\* call has written.
Wit_C7_SecondPassFromCache ==
    /\ passes = 2
    /\ AnsweredFromCache
    /\ ext_passes[DocPath] = 1
    /\ Len(wk[1].ocr_pages_data) = MaxPages

\* C7 (as stated): over any sequence of submissions of a document, without
\* a purge in between, the extraction service is invoked in at most one OCR
\* pass.
Cex_C7_AtMostOneOcrPass == \A q \in DOMAIN ext_passes : ext_passes[q] <= 1

\* The pages the call in progress has begun.
PagesBegun == DOMAIN ocr[1].stats

C8_AtMostThreeCalls ==
    \A p \in PagesBegun : ocr[1].stats[p].calls <= 3

\* The k-th retry event of a page carries retry = k and comes with a sleep
\* of 2^k seconds.
C8_BackoffDoubles ==
    \A p \in PagesBegun :
        LET retries == EventsOf("retry", p)
            sleeps == ocr[1].stats[p].sleeps
        IN  /\ Len(sleeps) = Len(retries)
            /\ \A k \in DOMAIN retries :
                  retries[k].n = k /\ sleeps[k] = 2 ^ k

\* The call for page p failed exactly twice and the third call succeeded.
FailedTwiceThenSucceeded(p) ==
    /\ p \in PagesBegun
    /\ ocr[1].stats[p].calls = 3
    /\ ocr[1].stats[p].fails = 2
    /\ Len(ocr[1].pages_out) >= p

C8_TwoFailuresThenSuccess ==
    \A p \in 1..MaxPages :
        FailedTwiceThenSucceeded(p) =>
            /\ Len(EventsOf("retry", p)) = 2
            /\ SumSeq(ocr[1].stats[p].sleeps) = 6
            /\ Len(EventsOf("page_completed", p)) = 1
            /\ EventsOf("page_failed", p) = << >>
            /\ ocr[1].pages_out[p] = PageResult(p, PageText(p))

\* C8: ocr_pdf_pages makes at most 3 extraction calls per page; the k-th
\* retry of a page is preceded by a backoff of 2^k seconds; a page whose
\* call fails exactly twice and then succeeds produces exactly two retry
\* events, 6 seconds of backoff in total, a page_completed event and no
\* page_failed event.
Thm_C8_BoundedRetriesWithBackoff ==
    /\ C8_AtMostThreeCalls
    /\ C8_BackoffDoubles
    /\ C8_TwoFailuresThenSuccess

Wit_C8_ThirdCallSucceeds ==
    /\ FailedTwiceThenSucceeded(1)
    /\ Len(EventsOf("page_completed", 1)) = 1

\* The call for the document went through the page loop and returned.
OcrCompleted == wk[1].pc = "after_ocr" /\ wk[1].ocr_results /\ ~ocr[1].from_cache

\* The pages whose attempts were used up.
ExhaustedPages ==
    { p \in PagesBegun : ocr[1].stats[p].fails >= MAX_RETRIES }

\* C9: pages whose extraction calls exhaust all retries get the failure
\* sentinel with words = 0 and the remaining pages are still processed; the
\* stage ends with completed carrying failed_pages = |F| and success_pages
\* = total - |F| for the set F of the exhausted pages, and the document is
\* not failed by the OCR stage.
Thm_C9_ExhaustedPagesGetSentinel ==
    OcrCompleted =>
        LET o == ocr[1]
            F == ExhaustedPages
            doc_id == generate_document_id(<<"A">>, FileA)
        IN  /\ Len(o.pages_out) = o.total_pages
            /\ PagesBegun = 1..o.total_pages
            /\ \A p \in 1..o.total_pages :
                  o.pages_out[p] =
                     IF p \in F
                     THEN [ page |-> p, text |-> OcrFailedText, words |-> 0 ]
                     ELSE PageResult(p, PageText(p))
            /\ events[1][Len(events[1])] =
                  EvCompleted(o.total_pages - Cardinality(F), Cardinality(F),
                              o.total_pages, o.pages_out)
            /\ wk[1].ocr_pages_data = o.pages_out
            /\ ~processing_states_memory[doc_id].isError
            /\ Status(processing_states_memory[doc_id]) = "processing"

Wit_C9_OnePageExhausted ==
    /\ OcrCompleted
    /\ ExhaustedPages = {1}
    /\ ocr[1].total_pages = 2

(***************************************************************************)
(* Properties of process_documents_pipeline (SpecPipe).                    *)
(***************************************************************************)
PipeEvents == events[1]
LastEvent == PipeEvents[Len(PipeEvents)]

\* The OCR or the embedding generator of the current document is exhausted
\* and its success event was not among its events.
StageEndedWithoutSuccess ==
    \/ wk[1].pc = "after_ocr" /\ ~wk[1].ocr_results
    \/ wk[1].pc = "after_embed" /\ ~wk[1].embedding_results

\* The step the pipeline takes then: the document is failed with a
\* message, step_failed is yielded and the loop is at the next file.
C5_FailureStep ==
    StageEndedWithoutSuccess =>
        LET st == processing_states_memory'[CurDoc(1)]
            ev == events'[1]
        IN  /\ Status(st) = "failed"
            /\ st.isError /\ st.errorMessage # "" /\ ~st.is_processing
            /\ ev[Len(ev)].status = "step_failed"
            /\ ev[Len(ev)].step =
                  (IF wk[1].pc = "after_ocr" THEN "ocr" ELSE "embedding")
            /\ wk'[1].pc = "loop"
            /\ wk'[1].file_idx = wk[1].file_idx + 1

\* No later stage of the failed document runs: what follows step_failed is
\* the next file or the end of the batch.
C5_LaterStagesSkipped ==
    \A i \in DOMAIN PipeEvents :
        PipeEvents[i].status = "step_failed" /\ i < Len(PipeEvents) =>
            PipeEvents[i + 1].status \in {"file_started", "file_error", "all_completed"}

StepFailedSeen == \E i \in DOMAIN PipeEvents : PipeEvents[i].status = "step_failed"

PipelineEnded == wk[1].pc = "cleanup"

\* The batch of a failed stage ends with all_completed, or with
\* process_error raised by a later file whose PDF cannot be opened.
C5_BatchEnds ==
    PipelineEnded /\ StepFailedSeen =>
        \/ wk[1].terminal = "all_completed" /\ LastEvent.status = "all_completed"
        \/ /\ wk[1].terminal = "process_error"
           /\ LastEvent.status = "process_error"
           /\ wk[1].file_idx < Len(rfiles[1])
           /\ pdf_pages[CurFile(1)] < 0

\* C5 (amended): when the OCR or Embedding generator of a document
\* finishes without having yielded its success event, that document is
\* marked failed with a message, step_failed is emitted, none of its later
\* stages runs and the pipeline goes on to the next file of the batch; the
\* batch still ends with all_completed unless a later file raises an
\* exception at the pipeline boundary (its PDF cannot be opened), which
\* ends it with process_error.
Thm_C5_StageFailureSkipsToNextFile ==
    /\ [] (C5_LaterStagesSkipped /\ C5_BatchEnds)
    /\ [][C5_FailureStep]_vars

\* The first of two files failed at a stage, the second was begun and the
\* batch ended with all_completed.
Wit_C5_SecondFileAfterFailure ==
    /\ PipelineEnded
    /\ wk[1].terminal = "all_completed"
    /\ Len(wk[1].document_ids) = 2
    /\ \E i, j \in DOMAIN PipeEvents :
          /\ i < j
          /\ PipeEvents[i].status = "step_failed"
          /\ PipeEvents[j].status = "file_started" /\ PipeEvents[j].n = 2

\* C5 (as stated): a batch in which a stage failed still ends with
\* all_completed.
Cex_C5_BatchAlwaysAllCompleted ==
    PipelineEnded /\ StepFailedSeen => wk[1].terminal = "all_completed"

IngestionFailure(e) == e.status \in {"ingestion_error", "ingestion_failed"}

\* C6: when the ingestion stage of a document fails, the document becomes
\* failed and neither file_completed nor the completion record is produced
\* for it.
Cex_C6_IngestionFailureFailsDocument ==
    /\ \A i \in DOMAIN PipeEvents :
          IngestionFailure(PipeEvents[i]) /\ i < Len(PipeEvents) =>
              PipeEvents[i + 1].status # "file_completed"
    /\ wk[1].pc = "after_ingest" /\ IngestionFailure(LastEvent) =>
          /\ Status(processing_states_memory[CurDoc(1)]) # "completed"
          /\ processing_states_memory[CurDoc(1)].message # "file_completed"
    /\ wk[1].pc = "structured" /\ IngestionFailure(PipeEvents[Len(PipeEvents) - 1]) =>
          Status(processing_states_memory[CurDoc(1)]) = "failed"

\* The tags C10 restricts the stream to, with the page of a page event and
\* the success_pages of completed.
C10Tags ==
    { "started", "processing", "page_completed", "completed",
      "embedding_started", "embedding_completed", "ingestion_started",
      "ingestion_completed", "file_completed", "all_completed" }

Tag(e) == << e.status, e.page, IF e.status = "completed" THEN e.n ELSE 0 >>

RECURSIVE Restricted(_)
Restricted(ev) ==
    IF ev = << >> THEN << >>
    ELSE (IF Head(ev).status \in C10Tags THEN << Tag(Head(ev)) >> ELSE << >>)
         \o Restricted(Tail(ev))

\* A batch of the one document a, of two pages, no artifact in the cache,
\* every collaborator succeeding, has run to its end.
CleanTwoPageRun ==
    /\ PipelineEnded
    /\ wk[1].document_ids = << generate_document_id(<<"A">>, FileA) >>
    /\ wk[1].file_idx = 1
    /\ pdf_pages[FileA] = 2
    /\ deka_client
    /\ ~ocr[1].from_cache
    /\ faults = MaxFaults

\* C10: for one document with two pages, no cache and all external
\* services succeeding, the event stream of the batch restricted to the
\* tags of C10Tags is exactly started, processing(page 1), page_completed(
\* page 1), processing(page 2), page_completed(page 2), completed(
\* success_pages = 2), embedding_started, embedding_completed,
\* ingestion_started, ingestion_completed, file_completed, all_completed.
Thm_C10_EventOrderOfCleanRun ==
    CleanTwoPageRun =>
        Restricted(PipeEvents) =
            << <<"started", 0, 0>>,
               <<"processing", 1, 0>>, <<"page_completed", 1, 0>>,
               <<"processing", 2, 0>>, <<"page_completed", 2, 0>>,
               <<"completed", 0, 2>>,
               <<"embedding_started", 0, 0>>, <<"embedding_completed", 0, 0>>,
               <<"ingestion_started", 0, 0>>, <<"ingestion_completed", 0, 0>>,
               <<"file_completed", 0, 0>>, <<"all_completed", 0, 0>> >>

Wit_C10_CleanRunEnded ==
    /\ CleanTwoPageRun
    /\ wk[1].terminal = "all_completed"
    /\ Len(Restricted(PipeEvents)) = 12

(***************************************************************************)
(* Properties of the vector index (SpecPipe).                              *)
(***************************************************************************)
IdsOf(points) == { points[k].id : k \in DOMAIN points }

\* The ids the index holds for a document.
IndexIdsOf(doc_id) == { id \in IdsOf(qdrant.points) : id.doc = doc_id }

\* The batch names file a twice, the first run has ended with
\* ingestion_completed and the pipeline is in the second run.
SecondRunAfterIngestion ==
    /\ rfiles[1] = <<FileA, FileA>>
    /\ wk[1].file_idx = 1
    /\ \E i, j \in DOMAIN PipeEvents :
          /\ i < j
          /\ PipeEvents[i].status = "ingestion_completed"
          /\ PipeEvents[j].status = "file_started" /\ PipeEvents[j].n = 2

C11_SameDocId ==
    Len(wk[1].document_ids) = 2 /\ rfiles[1] = <<FileA, FileA>> =>
        wk[1].document_ids[1] = wk[1].document_ids[2]

\* The points the second run has embedded carry the ids the first run
\* stored.
C11_SamePointIds ==
    SecondRunAfterIngestion /\ wk[1].pc = "after_embed" /\ wk[1].embedding_results =>
        IdsOf(wk[1].points_data) = IndexIdsOf(CurDoc(1))

C11_OnePointPerId ==
    \A i, j \in DOMAIN qdrant.points :
        qdrant.points[i].id = qdrant.points[j].id => i = j

\* The second run's upserts leave the index with the points it had.
C11_SecondRunOverwrites ==
    SecondRunAfterIngestion =>
        /\ IdsOf(qdrant'.points) = IdsOf(qdrant.points)
        /\ Len(qdrant'.points) = Len(qdrant.points)

\* C11: processing the same (companyId, fileName) twice yields the same
\* docId and the same set of embedding-point ids, and since ingestion
\* upserts by id the vector index after the second run holds exactly one
\* point per (docId, page): the ids of the document are those of the first
\* run, with no duplicate entries.
Thm_C11_ReprocessingIsIdempotent ==
    /\ [] (C11_SameDocId /\ C11_SamePointIds /\ C11_OnePointPerId)
    /\ [][C11_SecondRunOverwrites]_vars

\* The second run has ingested a document of MaxPages pages again.
Wit_C11_SecondRunIngested ==
    /\ SecondRunAfterIngestion
    /\ wk[1].pc = "after_ingest"
    /\ LastEvent.status = "ingestion_completed"
    /\ LastEvent.n = MaxPages
    /\ Len(qdrant.points) = MaxPages

(***************************************************************************)
(* Properties of generate_embeddings (SpecPipe).                           *)
(***************************************************************************)
\* The events yielded since the embedding stage of the current document was
\* entered.
EmbeddingEvents ==
    LET starts == { i \in DOMAIN PipeEvents :
                      PipeEvents[i].status = "step_started"
                      /\ PipeEvents[i].step = "embedding" }
        from == CHOOSE i \in starts : \A j \in starts : j <= i
    IN  SubSeq(PipeEvents, from + 1, Len(PipeEvents))

CountOf(ev, status) ==
    Cardinality({ i \in DOMAIN ev : ev[i].status = status })

\* generate_embeddings has returned to the pipeline.
EmbeddingReturned == wk[1].pc = "after_embed"

C12_CompletedMeansEveryBatch ==
    EmbeddingReturned /\ wk[1].embedding_results =>
        LET chunks == wk[1].ocr_pages_data
            points == wk[1].points_data
            n == Len(chunks)
            batches == (n + BATCH_SIZE - 1) \div BATCH_SIZE
        IN  /\ LastEvent.status = "embedding_completed"
            /\ LastEvent.n = n
            /\ CountOf(EmbeddingEvents, "embedding_batch") = batches
            /\ CountOf(EmbeddingEvents, "embedding_batch_completed") = batches
            /\ CountOf(EmbeddingEvents, "embedding_error") = 0
            /\ Len(points) = n
            /\ \A k \in 1..n :
                  /\ points[k].vector
                  /\ points[k].id = PointId(CurDoc(1), chunks[k].page)
            /\ Cardinality(IdsOf(points)) = n

C12_FailureEmitsNoPoints ==
    EmbeddingReturned /\ ~wk[1].embedding_results =>
        /\ wk[1].points_data = << >>
        /\ CountOf(EmbeddingEvents, "embedding_completed") = 0
        /\ LastEvent.status \in {"embedding_error", "embedding_failed", ""}

\* After a failed batch nothing more is sent: the pipeline's step_failed is
\* the next event.
C12_NoBatchAfterFailure ==
    \A i \in DOMAIN PipeEvents :
        PipeEvents[i].status \in {"embedding_error", "embedding_failed"}
        /\ i < Len(PipeEvents) =>
            PipeEvents[i + 1].status = "step_failed"

\* The index is written only for a document whose embedding completed.
C12_UpsertOnlyAfterCompleted ==
    qdrant' # qdrant =>
        /\ wk[1].pc \in {"ingest", "ingest_batch"}
        /\ wk[1].embedding_results
        /\ CountOf(EmbeddingEvents, "embedding_completed") = 1

\* C12: embedding is all-or-nothing: generate_embeddings emits
\* embedding_completed only when every batch call succeeded, and then the
\* point set has exactly one point per input chunk, each with a vector; when
\* any batch call fails no later batch is sent, no point set is emitted and
\* the pipeline makes no vector-index upsert for that document.
Thm_C12_EmbeddingAllOrNothing ==
    /\ [] (C12_CompletedMeansEveryBatch /\ C12_FailureEmitsNoPoints
           /\ C12_NoBatchAfterFailure)
    /\ [][C12_UpsertOnlyAfterCompleted]_vars

\* The second batch failed after the first one had succeeded.
Wit_C12_SecondBatchFailed ==
    /\ EmbeddingReturned
    /\ ~wk[1].embedding_results
    /\ LastEvent.status = "embedding_error"
    /\ CountOf(EmbeddingEvents, "embedding_batch_completed") = 1
    /\ CountOf(EmbeddingEvents, "embedding_batch") = 2

(***************************************************************************)
(* Properties of the structured-indexing stage (SpecPipe).                 *)
(***************************************************************************)
\* The pipeline is at the structured-indexing stage of the current file.
AtStructuredStage == wk[1].pc = "structured"

\* Whatever the stage does, the store is as it was, no terminal event is
\* set and the loop is at the next file.
C13_StageLeavesJobAlone ==
    AtStructuredStage =>
        /\ processing_states_memory' = processing_states_memory
        /\ Status(processing_states_memory'[CurDoc(1)]) =
              Status(processing_states_memory[CurDoc(1)])
        /\ wk'[1].pc = "loop"
        /\ wk'[1].file_idx = wk[1].file_idx + 1
        /\ wk'[1].terminal = wk[1].terminal
        /\ wk'[1].document_ids = wk[1].document_ids

\* What follows the events of the stage is the next file or all_completed,
\* never process_error.
C13_BatchGoesOn ==
    \A i \in DOMAIN PipeEvents :
        PipeEvents[i].step = "structured_indexing" /\ i < Len(PipeEvents) =>
            \/ PipeEvents[i + 1].step = "structured_indexing"
            \/ PipeEvents[i + 1].status \in {"file_started", "file_error", "all_completed"}

\* C13: no failure in the Structured-Extraction stage (database
\* unreachable, field listing error, extraction-service error, missing
\* cache artifact) ever marks the document failed, aborts the batch or
\* prevents the next file from being processed: the document's status
\* after the stage is the same as if the stage had succeeded.
Thm_C13_StructuredFailureIsLoggedOnly ==
    /\ [] C13_BatchGoesOn
    /\ [][C13_StageLeavesJobAlone]_vars

\* The stage of the first file broke off after step_started and the second
\* file was begun.
Wit_C13_NextFileAfterBrokenStage ==
    \E i \in DOMAIN PipeEvents :
        /\ i < Len(PipeEvents)
        /\ PipeEvents[i].status = "step_started"
        /\ PipeEvents[i].step = "structured_indexing"
        /\ PipeEvents[i + 1].status = "file_started"
        /\ PipeEvents[i + 1].n = 2

(***************************************************************************)
(* Properties of the event bus (SpecBus).                                  *)
(***************************************************************************)
\* C14: publish never blocks the publisher and a subscriber whose queue is
\* full or broken is dropped; consequently the length of every
\* subscriber's queue never exceeds a fixed bound, however slowly that
\* subscriber consumes.  Stated for the bound the behaviours of SpecBus
\* can tell from no bound at all: a queue never holds every update that
\* was published.
Cex_C14_QueueLengthBounded ==
    \A s \in Subscribers : Len(listener_queue[s]) < MaxPublishes

\* Every update is put into a subscriber's queue at most once.
C15_AtMostOnce ==
    \A s \in Subscribers :
        \A i, j \in DOMAIN delivered[s] :
            i # j => delivered[s][i] # delivered[s][j]

\* A queue holds the updates last put into it that were not yet taken, in
\* the order they were put, and the updates of one publisher were put in
\* the order of its calls.
C15_FifoPerPublisher ==
    \A s \in Subscribers :
        LET d == delivered[s]
            k == Len(listener_queue[s])
        IN  /\ k <= Len(d)
            /\ \A i \in 1..k :
                  listener_queue[s][i] = [ json |-> d[Len(d) - k + i] ]
            /\ \A i, j \in DOMAIN d :
                  i < j /\ d[i][1] = d[j][1] => d[i][2] < d[j][2]

\* No update whose call had returned when the subscriber registered is
\* ever put into its queue.
C15_NoReplay ==
    \A s \in Subscribers :
        \A i \in DOMAIN delivered[s] : delivered[s][i] \notin finished_before[s]

\* C15: each published event is enqueued to each subscriber at most once;
\* the events of one publisher reach a subscriber's queue in the order
\* they were published; and a subscriber never receives an event whose
\* publish call finished before that subscriber was registered.
Thm_C15_AtMostOnceFifoNoReplay ==
    C15_AtMostOnce /\ C15_FifoPerPublisher /\ C15_NoReplay

\* Two publishers have reached one subscriber, one of them twice, and a
\* subscriber that registered after a call had returned has received a
\* later update.
Wit_C15_TwoPublishersAndLateSubscriber ==
    \E s, t \in Subscribers :
        /\ s # t
        /\ Len(delivered[s]) = 3
        /\ \E i, j \in DOMAIN delivered[s] : delivered[s][i][1] # delivered[s][j][1]
        /\ finished_before[t] # {}
        /\ delivered[t] # << >>
        /\ Len(listener_queue[s]) = 2

(***************************************************************************)
(* Properties of the progress store under concurrency (SpecLock).          *)
(***************************************************************************)
\* The threads that are between the first and the last statement of a
\* load-mutate-save sequence.
InSequence == { t \in Threads : th[t].pc # "out" }

\* A sequence runs with the lock held by its thread, hence one at a time.
C16_SequencesInsideLock ==
    /\ \A t \in InSequence : processing_lock = t
    /\ Cardinality(InSequence) <= 1

\* What a sequence has loaded is what the store still holds when it saves.
C16_LoadedIsCurrent ==
    \A t \in InSequence :
        th[t].pc \in {"loaded", "mutated"} =>
            th[t].loaded = [ d \in DOMAIN th[t].loaded |-> processing_states_memory[d] ]

\* Every field a sequence wrote holds the value of the last sequence that
\* wrote it.
C16_WrittenFieldsKept ==
    \A k \in DOMAIN last_written :
        /\ k[1] \in DOMAIN processing_states_memory
        /\ processing_states_memory[k[1]][k[2]] = last_written[k]

\* C16: no lost update in the progress store: every load-mutate-save
\* sequence runs entirely inside the single reentrant processing_lock, so
\* under every interleaving of concurrent workers and handlers each field
\* written by one sequence is still present in the store after all
\* sequences finish, unless a later sequence wrote that same field.
Thm_C16_NoLostUpdate ==
    C16_SequencesInsideLock /\ C16_LoadedIsCurrent /\ C16_WrittenFieldsKept

\* Every thread has finished: the handler queued two files of company A
\* before the worker of A marked the first as processing, and the fields
\* of all three are in the store.
Wit_C16_AllSequencesFinished ==
    LET a == generate_document_id(<<"A">>, FileA)
        b == generate_document_id(<<"A">>, FileB)
        c == generate_document_id(<<"B">>, FileA)
    IN  /\ \A t \in Threads : th[t].todo = << >>
        /\ th["handler"].company_id = <<"A">>
        /\ b \in DOMAIN processing_states_memory
        /\ processing_states_memory[b].is_queued
        /\ processing_states_memory[a].current_page = 1
        /\ processing_states_memory[a].logs = <<"queued", "started", "step_started">>
        /\ processing_states_memory[c].steps = {"ocr"}

(***************************************************************************)
(* Properties of save and load (SpecStore).                                *)
(***************************************************************************)
\* C17: save writes a full snapshot: for every scope and map m,
\* load(scope) right after save(scope, m) returns exactly m, so a docId
\* that was stored before and is absent from m is absent from the result,
\* and load of any other scope is unchanged by the save.
Cex_C17_SaveWritesFullSnapshot ==
    last_save # << >> =>
        /\ load_processing_states(processing_states_memory, last_save.company_id)
              = last_save.states
        /\ \A c \in Companies \ {last_save.company_id} :
              load_processing_states(processing_states_memory, c)
                 = load_processing_states(last_save.before, c)

(***************************************************************************)
(* Properties of the startup orphan sweep (SpecSweep).                     *)
(***************************************************************************)
\* The progress-log files the directory held at startup.
LogFilesAtStartup ==
    { f \in DOMAIN sweep.before : f[Len(f)] = "json" /\ f[Len(f) - 1] = "." }

\* More than the threshold has passed since the file was last modified.
OlderThanThreshold(f) ==
    StartupTime - sweep.before[f].mtime >= ORPHAN_THRESHOLD_SECONDS + 1

Kept(f) == f \in DOMAIN log_files /\ log_files[f] = sweep.before[f]

\* The sweep only removes: what is left is as it was.
C18_NothingModified ==
    \A f \in DOMAIN log_files : f \in DOMAIN sweep.before /\ Kept(f)

\* After the sweep an old progress-log file that could be removed is gone
\* and every other file is as it was.
C18_ExactlyTheOrphansRemoved ==
    sweep.pc = "done" =>
        \A f \in DOMAIN sweep.before :
            IF f \in LogFilesAtStartup /\ OlderThanThreshold(f)
                  /\ ~ sweep.before[f].oserror
            THEN f \notin DOMAIN log_files
            ELSE Kept(f)

\* C18 (as the code has it): the startup orphan sweep deletes every
\* progress-log file older than the threshold (3600 s) that the file
\* system lets it remove, keeps one whose removal raises OSError and goes
\* on, and deletes no other file: a file not older than the threshold
\* still exists afterwards with unchanged content.
Thm_C18_SweepRemovesRemovableOrphans ==
    C18_NothingModified /\ C18_ExactlyTheOrphansRemoved

\* The sweep is over: it removed an old log, kept a log exactly as old as
\* the threshold, kept an old log whose removal failed, and kept an old
\* file that is no log.
Wit_C18_SweepDone ==
    /\ sweep.pc = "done"
    /\ DOMAIN sweep.before = DirNames
    /\ \E f, g \in LogFilesAtStartup :
          /\ f # g
          /\ OlderThanThreshold(f) /\ ~ sweep.before[f].oserror
          /\ f \notin DOMAIN log_files
          /\ sweep.before[g].mtime = StartupTime - ORPHAN_THRESHOLD_SECONDS
          /\ Kept(g)
    /\ Kept(BackupFile)

Wit_C18_OrphanSurvivesFailedRemoval ==
    /\ sweep.pc = "done"
    /\ \E f \in LogFilesAtStartup :
          OlderThanThreshold(f) /\ sweep.before[f].oserror /\ Kept(f)

\* C18 (as stated): the sweep deletes every progress-log file older than
\* the threshold.
Cex_C18_EveryOrphanRemoved ==
    sweep.pc = "done" =>
        \A f \in LogFilesAtStartup :
            OlderThanThreshold(f) => f \notin DOMAIN log_files

(***************************************************************************)
(* The life of a DocumentJob (Spec).                                       *)
(***************************************************************************)
\* The worker of batch r finishes in this step and no other submission
\* has named the company of r.
C19_WorkerFinishes(r) ==
    /\ wk[r].pc = "cleanup"
    /\ wk'[r].pc = "done"
    /\ \A q \in Req \ {r} : rcomp[q] # rcomp[r]

\* C19: every DocumentJob created in the progress store at submission is
\* removed from the store once its batch's worker has finished, for every
\* file of the submitted list (including files that are missing on disk or
\* whose processing failed): no DocumentJob stays queued or processing
\* forever.  Stated at the step in which the worker finishes, after which
\* nothing touches the jobs of the batch any more.
Cex_C19_EveryJobRemovedAtWorkerEnd ==
    [][ \A r \in Req :
           C19_WorkerFinishes(r) =>
              \A i \in DOMAIN rfiles[r] :
                 generate_document_id(rcomp[r], rfiles[r][i])
                    \notin DOMAIN processing_states_memory' ]_vars

(***************************************************************************)
(* Properties of the cache store (SpecCache).                              *)
(***************************************************************************)
\* C20: the Cache Store keeps one artifact per (company, document): for
\* any two distinct pairs (c1, d1) # (c2, d2), a put for (c1, d1) never
\* makes get(c2, d2) hit or change its result, also when the two company
\* identifiers differ only in characters that the path sanitization
\* replaces.
Cex_C20_PutLeavesOtherPairsAlone ==
    last_put # << >> =>
        \A c \in CacheCompanies, f \in FileNames :
            <<c, f>> # <<last_put.company_id, last_put.source_name>> =>
                CacheGet(cache, c, f) = CacheGet(last_put.before, c, f)

(***************************************************************************)
(* The pipeline boundary (Spec).                                           *)
(***************************************************************************)
\* The exception of batch r is being handled in this step.
C21_Caught(r) == wk[r].pc = "except" /\ wk'[r].pc # "except"

\* The except clause records the error on every started document that is
\* in the store, touches no other document, yields process_error and goes
\* on to the finally clause.
C21_RecordedOnStarted ==
    \A r \in Req :
        C21_Caught(r) =>
            /\ wk'[r].pc = "cleanup"
            /\ wk'[r].terminal = "process_error"
            /\ wk'[r].document_ids = wk[r].document_ids
            /\ DOMAIN processing_states_memory' = DOMAIN processing_states_memory
            /\ \A d \in DOMAIN processing_states_memory :
                  IF d \in Range(wk[r].document_ids)
                  THEN /\ processing_states_memory'[d].isError
                       /\ ~ processing_states_memory'[d].is_processing
                       /\ processing_states_memory'[d].errorMessage = "exception"
                       /\ Status(processing_states_memory'[d]) = "failed"
                  ELSE processing_states_memory'[d] = processing_states_memory[d]

\* The worker comes to its end: the handling and the cleanup can always
\* take their next step.
C21_WorkerGoesOn ==
    \A r \in Req :
        /\ wk[r].pc = "except" => ENABLED P_Except(r)
        /\ wk[r].pc = "cleanup" => ENABLED (P_Cleanup(r) \/ W_Release(r))

\* When the worker of a batch that ended with process_error returns, its
\* thread and the slot of its company are free again and the batches of
\* the other companies are as they were.
C21_PoolUnharmed ==
    \A r \in Req :
        (wk[r].pc = "cleanup" /\ wk[r].terminal = "process_error"
            /\ wk'[r].pc = "done") =>
            /\ r \notin running'
            /\ running' = running \ {r}
            /\ pool' = pool
            /\ rcomp[r] \notin active_jobs'
            /\ \A q \in Req \ {r} : wk'[q] = wk[q]

\* C21: an unexpected exception raised anywhere inside
\* process_documents_pipeline is caught at the pipeline boundary: every
\* DocumentJob of the batch that had been started is recorded as failed
\* with the error message, one process_error event is emitted, the worker
\* returns without raising, and the pool keeps accepting and running
\* batches of other companies.
Thm_C21_ExceptionCaughtAtBoundary ==
    /\ [] C21_WorkerGoesOn
    /\ [][C21_RecordedOnStarted /\ C21_PoolUnharmed]_vars

\* The second file of a batch raised: both started documents carry the
\* error, and a batch of the other company was accepted meanwhile and
\* waits for the thread.
Wit_C21_BatchFailedOtherAccepted ==
    \E r, q \in Req :
        /\ wk[r].pc = "cleanup"
        /\ wk[r].terminal = "process_error"
        /\ wk[r].cleanup_idx = 0
        /\ Len(wk[r].document_ids) = 2
        /\ \A i \in 1..2 :
              /\ wk[r].document_ids[i] \in DOMAIN processing_states_memory
              /\ processing_states_memory[wk[r].document_ids[i]].isError
        /\ rcomp[q] # rcomp[r]
        /\ resp[q] = 202
        /\ q \in Range(pool)

(***************************************************************************)
(* The events of one call of a stage executor (SpecPipe).                  *)
(***************************************************************************)
\* What was yielded since the pipeline last entered the stage.
EventsSinceStep(step) ==
    LET starts == { i \in DOMAIN PipeEvents :
                      PipeEvents[i].status = "step_started"
                      /\ PipeEvents[i].step = step }
        from == CHOOSE i \in starts : \A j \in starts : j <= i
    IN  SubSeq(PipeEvents, from + 1, Len(PipeEvents))

\* The stage whose executor has just returned to the pipeline.
ReturnedStage ==
    IF wk[1].pc = "after_ocr" THEN "ocr"
    ELSE IF wk[1].pc = "after_embed" THEN "embedding"
    ELSE IF wk[1].pc = "after_ingest" THEN "ingestion"
    ELSE "none"

StartEventOf(step) ==
    IF step = "ocr" THEN "started"
    ELSE IF step = "embedding" THEN "embedding_started"
    ELSE "ingestion_started"

TerminalEventsOf(step) ==
    IF step = "ocr" THEN { "completed" }
    ELSE IF step = "embedding"
    THEN { "embedding_completed", "embedding_error", "embedding_failed" }
    ELSE { "ingestion_completed", "ingestion_error", "ingestion_failed" }

\* C22: every invocation of a stage executor emits its start event first,
\* then zero or more progress events, and exactly one terminal event last,
\* on every path including missing client, failing probe call and failing
\* batch.
Cex_C22_StartFirstOneTerminalLast ==
    ReturnedStage # "none" =>
        LET ev == EventsSinceStep(ReturnedStage)
            terminals == { i \in DOMAIN ev :
                             ev[i].status \in TerminalEventsOf(ReturnedStage) }
        IN  /\ ev # << >>
            /\ ev[1].status = StartEventOf(ReturnedStage)
            /\ terminals = { Len(ev) }

(***************************************************************************)
(* A failing ingestion batch (SpecPipe).                                   *)
(***************************************************************************)
\* ingest_to_qdrant has returned after the upsert of a batch failed.
IngestionBatchFailed ==
    wk[1].pc = "after_ingest" /\ LastEvent.status = "ingestion_error"

\* C23: when the upsert of ingestion batch k fails, ingest_to_qdrant sends
\* no batch after k, and the failure event it emits carries the number of
\* points already uploaded, which equals the total size of batches 1..k-1.
\* An event's total is the count it carries (0 when it carries none) and
\* its n the number of the batch.
Cex_C23_FailureCarriesUploadedCount ==
    IngestionBatchFailed =>
        /\ ing[1].uploaded_count = (LastEvent.n - 1) * BATCH_SIZE
        /\ LastEvent.total = ing[1].uploaded_count

(***************************************************************************)
(* The creation race of two ingesting workers (SpecRace).                  *)
(***************************************************************************)
Yielded(w, status) ==
    \E i \in DOMAIN rw[w].yielded : rw[w].yielded[i].status = status

\* The worker's create_collection was answered "already exists".
LostTheRace(w) == Yielded(w, "collection_exists")

\* Every point of the worker is in the collection, once.
AllUploaded(w) ==
    \A k \in DOMAIN rw[w].points_data :
        Cardinality({ i \in DOMAIN qdrant.points :
                        qdrant.points[i].id = rw[w].points_data[k].id }) = 1

C24_CreatedOnce ==
    /\ creations <= 1
    /\ creations = 1 <=> qdrant.exists
    /\ Cardinality({ w \in RaceWorkers : Yielded(w, "collection_created") })
          = creations

C24_LoserGoesOn ==
    \A w \in RaceWorkers :
        LostTheRace(w) =>
            /\ ~ Yielded(w, "ingestion_failed")
            /\ rw[w].pc \in {"batch", "done"}
            /\ rw[w].pc = "done" =>
                  /\ AllUploaded(w)
                  /\ rw[w].yielded[Len(rw[w].yielded)].status = "ingestion_completed"

\* ingestion_failed comes from a call that failed on the way only.
C24_NoFailureFromRace ==
    \A w \in RaceWorkers :
        Yielded(w, "ingestion_failed") => rw[w].create_error = << "timed", "out" >>

\* C24: when two workers run ingest_to_qdrant concurrently while the
\* collection does not exist, in every interleaving the collection is
\* created once, the worker whose create call fails with "already exists"
\* treats it as success (collection_exists) and goes on to upload its
\* batches, and neither worker ends with ingestion_failed because of the
\* creation race.
Thm_C24_CreationRaceIsBenign ==
    C24_CreatedOnce /\ C24_LoserGoesOn /\ C24_NoFailureFromRace

\* Both workers found no collection; one created it, the other was told
\* that it exists, and both have uploaded all their points.
Wit_C24_BothUploadedAfterRace ==
    \E w, v \in RaceWorkers :
        /\ w # v
        /\ Yielded(w, "collection_created")
        /\ LostTheRace(v)
        /\ rw[w].pc = "done" /\ rw[v].pc = "done"
        /\ AllUploaded(w) /\ AllUploaded(v)
        /\ Len(qdrant.points) = 2 * MaxPages

(***************************************************************************)
(* C25: a thread that waits on an external call (extraction, embedding,    *)
(* vector index, relational store) holds neither processing_lock nor       *)
(* active_jobs_lock, and while a thread holds processing_lock the only     *)
(* statements it runs are the load, the updates and the save of its block: *)
(* no external call is made inside a critical section.                     *)
(***************************************************************************)
C25_Waiting(t) == hd[t].waiting \in ExternalCalls

C25_HoldsNoLock(t) == processing_lock # t /\ active_jobs_lock # t

C25_InsideBlock(t) ==
    hd[t].pc \in DOMAIN Statements(t)
    /\ Statements(t)[hd[t].pc] \in { "load", "mutate", "save", "end with" }

Thm_C25_NoLockHeldAcrossExternalCall ==
    \A t \in Threads :
       /\ C25_Waiting(t) => C25_HoldsNoLock(t)
       /\ processing_lock = t => C25_InsideBlock(t)
       /\ active_jobs_lock = t =>
             /\ hd[t].pc \in DOMAIN Statements(t)
             /\ Statements(t)[hd[t].pc] \in { "jobs", "end jobs" }

\* One worker waits on the extraction service while another thread is
\* inside a critical section, and a third waits on the vector index.
Wit_C25_WaitingWhileOtherHoldsLock ==
    \E t, u, v \in Threads :
       /\ hd[t].waiting = "extraction"
       /\ processing_lock = u /\ u # t
       /\ hd[v].waiting = "vector index"

(***************************************************************************)
(* C26: within one run of a document every embedding batch call and every  *)
(* upsert batch call is made at most once; a failing batch is reported at  *)
(* once by the stage's error event, after which the stage makes no further *)
(* batch call: it is never retried.  Only the per-page extraction call is  *)
(* repeated.                                                               *)
(***************************************************************************)
C26_BatchEventOf(step) ==
    IF step = "embedding" THEN "embedding_batch" ELSE "ingestion_batch"

C26_ErrorEventOf(step) ==
    IF step = "embedding" THEN "embedding_error" ELSE "ingestion_error"

C26_StepStarted(step) ==
    \E i \in DOMAIN PipeEvents :
        PipeEvents[i].status = "step_started" /\ PipeEvents[i].step = step

\* How often the call of batch n was announced in the events evs.
C26_Calls(evs, status, n) ==
    Cardinality({ i \in DOMAIN evs : evs[i].status = status /\ evs[i].n = n })

C26_PageCalls(evs, page) ==
    Cardinality({ i \in DOMAIN evs :
                    evs[i].status = "page_api_call" /\ evs[i].page = page })

Thm_C26_BatchCallsNeverRetried ==
    \A step \in { "embedding", "ingestion" } :
       C26_StepStarted(step) =>
          LET evs == EventsSinceStep(step)
          IN  /\ \A n \in 1..MaxPages :
                    C26_Calls(evs, C26_BatchEventOf(step), n) <= 1
              /\ \A i \in DOMAIN evs :
                    evs[i].status = C26_ErrorEventOf(step) =>
                       /\ i > 1
                       /\ evs[i-1].status = C26_BatchEventOf(step)
                       /\ evs[i-1].n = evs[i].n
                       /\ \A j \in DOMAIN evs :
                             j > i => evs[j].status # C26_BatchEventOf(step)

\* The upsert of batch 2 has failed after batch 1 went in, the stage has
\* returned, and the extraction call of a page of this document was made
\* twice.
Wit_C26_FailedBatchAfterRepeatedPageCall ==
    /\ wk[1].pc = "after_ingest"
    /\ LastEvent.status = "ingestion_error"
    /\ LastEvent.n = 2
    /\ C26_StepStarted("ocr")
    /\ \E p \in 1..MaxPages : C26_PageCalls(EventsSinceStep("ocr"), p) = 2

(***************************************************************************)
(* C27: when the extraction client is not configured and the document has  *)
(* no cache artifact, the OCR stage ends at once with an error: no page is *)
(* rasterized, no extraction call is made, no retry event is emitted and   *)
(* nothing is waited for; the pipeline then marks the document failed and  *)
(* proceeds to the next file.                                              *)
(***************************************************************************)
\* ocr_pdf_pages is about to be called for a document without artifact
\* while deka_client is None.
C27_Case ==
    /\ wk[1].pc = "ocr"
    /\ ~deka_client
    /\ CachePath(1) \notin DOMAIN cache

C27_ErrorMessage == Ev("", "error", 0)

\* The stage is over in its first step, with the error as its only event.
C27_EndsAtOnce ==
    C27_Case =>
        /\ events'[1] = Append(events[1], C27_ErrorMessage)
        /\ wk'[1].pc = "after_ocr"
        /\ ~wk'[1].ocr_results
        /\ wk'[1].ocr_pages_data = << >>
        /\ ocr'[1].stats = << >>
        /\ ~ocr'[1].called
        /\ ocr'[1].total_pages = 0
        /\ ext_passes' = ext_passes
        /\ cache' = cache
        /\ faults' = faults

\* What the pipeline does with the stage that ended so.
C27_MarkedFailedNextFile ==
    ( /\ wk[1].pc = "after_ocr"
      /\ ~deka_client
      /\ LastEvent = C27_ErrorMessage ) =>
        LET st == processing_states_memory'[CurDoc(1)]
            ev == events'[1]
        IN  /\ Status(st) = "failed"
            /\ st.errorMessage # ""
            /\ ev = Append(events[1], ev[Len(ev)])
            /\ ev[Len(ev)].status = "step_failed"
            /\ ev[Len(ev)].step = "ocr"
            /\ wk'[1].pc = "loop"
            /\ wk'[1].file_idx = wk[1].file_idx + 1

Thm_C27_MissingClientFailsAtOnce ==
    [][C27_EndsAtOnce /\ C27_MarkedFailedNextFile]_vars

\* The first file failed for want of the client, right after its step had
\* started, and the second file was begun.
Wit_C27_NextFileAfterMissingClient ==
    /\ ~deka_client
    /\ \E i \in DOMAIN PipeEvents :
          /\ i + 3 <= Len(PipeEvents)
          /\ PipeEvents[i].status = "step_started" /\ PipeEvents[i].step = "ocr"
          /\ PipeEvents[i+1] = C27_ErrorMessage
          /\ PipeEvents[i+2].status = "step_failed"
          /\ PipeEvents[i+3].status = "file_started" /\ PipeEvents[i+3].n = 2

(***************************************************************************)
(* C28: a document of zero pages, with the extraction client configured:   *)
(* no extraction call is made; the OCR stage emits started and then        *)
(* completed with total_pages 0 and an empty page list, and the empty      *)
(* result is what the cache write stores (whenever the file system takes   *)
(* the write); the pipeline carries the document through embedding and     *)
(* ingestion to file_completed with zero points ingested, and does not     *)
(* fail it.                                                                *)
(***************************************************************************)
C28_Case ==
    /\ wk[1].pc = "ocr"
    /\ deka_client
    /\ CachePath(1) \notin DOMAIN cache
    /\ pdf_pages[CurFile(1)] = 0

C28_Started ==
    C28_Case =>
        /\ events'[1] = Append(events[1], Ev("started", "", 0))
        /\ wk'[1].pc = "ocr_page"
        /\ ocr'[1].total_pages = 0
        /\ ext_passes' = ext_passes

C28_Completed ==
    ( /\ wk[1].pc = "ocr_page"
      /\ ocr[1].total_pages = 0
      /\ ~ocr[1].from_cache ) =>
        /\ events'[1] = Append(events[1], EvCompleted(0, 0, 0, << >>))
        /\ wk'[1].pc = "after_ocr"
        /\ wk'[1].ocr_results
        /\ wk'[1].ocr_pages_data = << >>
        /\ ~ocr[1].called
        /\ ocr[1].stats = << >>
        /\ ext_passes' = ext_passes
        /\ faults' = faults =>
              /\ CachePath(1) \in DOMAIN cache'
              /\ cache'[CachePath(1)].readable
              /\ cache'[CachePath(1)].pages = << >>

\* The OCR stage of the current document has completed with no page.
C28_ZeroPages == wk[1].ocr_results /\ wk[1].ocr_pages_data = << >>

C28_NewEvent == events'[1][Len(events'[1])]

\* The step neither sets the document's error flag nor yields step_failed.
C28_NotFailed ==
    /\ processing_states_memory'[CurDoc(1)].isError =
          processing_states_memory[CurDoc(1)].isError
    /\ C28_NewEvent.status # "step_failed"

C28_CarriesOn ==
    C28_ZeroPages =>
        /\ wk[1].pc = "after_ocr" =>
              /\ wk'[1].pc = "embed"
              /\ C28_NotFailed
        /\ wk[1].pc = "embed_batch" =>
              /\ events'[1] = Append(events[1], Ev("embedding_completed", "", 0))
              /\ wk'[1].pc = "after_embed"
              /\ wk'[1].embedding_results
              /\ wk'[1].points_data = << >>
        /\ wk[1].pc = "after_embed" /\ wk[1].embedding_results =>
              /\ wk'[1].pc = "ingest"
              /\ C28_NotFailed
        /\ wk[1].pc = "ingest_batch" =>
              /\ events'[1] = Append(events[1], Ev("ingestion_completed", "", 0))
              /\ wk'[1].pc = "after_ingest"
              /\ qdrant' = qdrant
        /\ wk[1].pc = "after_ingest" /\ LastEvent.status = "ingestion_completed" =>
              /\ LastEvent.n = 0
              /\ C28_NewEvent.status = "file_completed"
              /\ C28_NotFailed

C29_IsHit(reply) ==
    /\ ~reply.raised
    /\ Strip(reply.content) # ""
    /\ Lower(Strip(reply.content)) # "n/a"

C29_ScanOver == ix.pc = "scanned" /\ deka_client

Cex_C29_StopsAtFirstHit ==
    C29_ScanOver =>
        LET n == Len(ix.asked)
        IN  /\ n <= Len(ix.ocr_pages)
            /\ \A k \in 1..n : ix.asked[k] = ix.ocr_pages[k].page
            /\ \A k \in 1..n : k < n => ~C29_IsHit(ix.replies[k])
            /\ IF \E k \in 1..n : C29_IsHit(ix.replies[k])
               THEN /\ C29_IsHit(ix.replies[n])
                    /\ ix.extracted_value = Some(Strip(ix.replies[n].content))
                    /\ ix.found_on_page = ix.asked[n]
               ELSE /\ n = Len(ix.ocr_pages)
                    /\ ix.extracted_value = None

(***************************************************************************)
(* C30: after any sequence of structured-extraction runs over the same     *)
(* cached documents, through the back-fill (index_single_document) or the  *)
(* full index job (index_company_worker), the relational store holds at    *)
(* most one row per (document, field).                                     *)
(***************************************************************************)
\* The cached document a row was extracted from: the back-fill names it by
\* its file name, the index job by the name of its cache file.
C30_DocumentOf(row) ==
    CHOOSE q \in DOMAIN cache :
        \/ q = row.company_name \o << "/" >> \o row.file_name \o << ".json" >>
        \/ q = row.company_name \o << "/" >> \o row.file_name

Cex_C30_OneRowPerDocumentAndField ==
    \A r1, r2 \in extracted_data :
        ( /\ C30_DocumentOf(r1) = C30_DocumentOf(r2)
          /\ r1.index_name = r2.index_name ) => r1 = r2

(***************************************************************************)
(* C31: a submission that is rejected because its company is already       *)
(* active leaves the progress store unchanged: when it is answered 409, no *)
(* DocumentJob of a file it names has been created by it, and none that    *)
(* was past the queued status has been put back to queued.                 *)
(***************************************************************************)
\* The handler of request r answers 409 in this step.
C31_Rejected(r) == resp[r] = 0 /\ resp'[r] = 409

C31_Docs(r) ==
    { generate_document_id(rcomp[r], rfiles[r][i]) : i \in DOMAIN rfiles[r] }

C31_NotCreated(r) ==
    \A d \in C31_Docs(r) :
        d \notin DOMAIN snap[r] => d \notin DOMAIN processing_states_memory'

C31_NotReset(r) ==
    \A d \in C31_Docs(r) :
        ( /\ d \in DOMAIN snap[r]
          /\ d \in DOMAIN processing_states_memory'
          /\ Status(snap[r][d]) # "queued" ) =>
              Status(processing_states_memory'[d]) # "queued"

Cex_C31_RejectionLeavesStoreUnchanged ==
    [][\A r \in Req :
          C31_Rejected(r) => C31_NotCreated(r) /\ C31_NotReset(r)]_vars

(***************************************************************************)
(* C32: once the stream's finally clause has discarded a subscriber's      *)
(* queue from processing_listeners, no notify_processing_update call       *)
(* enqueues an event on that queue any more.                               *)
(***************************************************************************)
\* The discard of app_fastapi.py:519-521 has completed for subscriber s.
C32_Removed(s) == sse[s] = "closed" /\ s \notin processing_listeners

C32_Enqueued(s) == Len(listener_queue'[s]) > Len(listener_queue[s])

Cex_C32_NoEventAfterUnsubscribe ==
    [][\A s \in Subscribers : C32_Removed(s) => ~C32_Enqueued(s)]_vars

(***************************************************************************)
(* C33: every run of process_documents_pipeline emits exactly one          *)
(* batch-terminal event, all_completed or process_error and never both,    *)
(* and it is the last event of the run: none while the run is in the file  *)
(* loop or on its way to the except clause, one from then on, with nothing *)
(* after it.                                                               *)
(***************************************************************************)
C33_Terminals ==
    { i \in DOMAIN PipeEvents :
         PipeEvents[i].status \in {"all_completed", "process_error"} }

\* The generator is in its finally clause or exhausted.
C33_RunOver == wk[1].pc \in {"cleanup", "done"}

Thm_C33_OneTerminalEventLast ==
    IF C33_RunOver
    THEN /\ PipeEvents # << >>
         /\ C33_Terminals = { Len(PipeEvents) }
         /\ wk[1].pc = "cleanup" =>
               PipeEvents[Len(PipeEvents)].status = wk[1].terminal
    ELSE C33_Terminals = {}

\* A run with a failed stage in one file and an exception later on has
\* ended with process_error.
Wit_C33_ErrorAfterStageFailure ==
    /\ C33_RunOver
    /\ PipeEvents[Len(PipeEvents)].status = "process_error"
    /\ \E i \in DOMAIN PipeEvents : PipeEvents[i].status = "step_failed"
    /\ \E i \in DOMAIN PipeEvents : PipeEvents[i].status = "file_started"

(***************************************************************************)
(* C34: whenever ocr_pdf_pages emits completed without a cache hit, the    *)
(* page list holds exactly one PageResult per page of the document, in     *)
(* ascending page number with none duplicated or missing, and              *)
(* success_pages + failed_pages = total_pages, whatever the rasteriser and *)
(* the extraction service did in the attempts.                             *)
(***************************************************************************)
\* The completed events of the call in progress, the call having gone
\* through the page loop.
C34_Completed ==
    { i \in DOMAIN PipeEvents :
         PipeEvents[i].status = "completed" /\ ~ocr[1].from_cache }

C34_OnePerPage(e) ==
    /\ Len(e.pages) = e.total
    /\ \A k \in DOMAIN e.pages : e.pages[k].page = k

C34_CountsAddUp(e) == e.n + e.failed = e.total

Thm_C34_CompletedCoversEveryPageOnce ==
    \A i \in C34_Completed :
        /\ PipeEvents[i].total = pdf_pages[FileA]
        /\ C34_OnePerPage(PipeEvents[i])
        /\ C34_CountsAddUp(PipeEvents[i])

\* A pass over a document of MaxPages pages has completed with a page the
\* service read after a failed attempt and a page that used up its
\* attempts, one of them failing in the rasteriser.
Wit_C34_CompletedWithFailedAndRetriedPage ==
    /\ C34_Completed # {}
    /\ \E i \in C34_Completed :
          /\ PipeEvents[i].total = MaxPages
          /\ PipeEvents[i].failed > 0
          /\ PipeEvents[i].n > 0
    /\ \E k \in DOMAIN ocr[1].stats :
          /\ ocr[1].stats[k].fails > 0
          /\ ocr[1].pages_out[k].text # OcrFailedText
    /\ \E k \in DOMAIN ocr[1].stats :
          ocr[1].stats[k].fails > ocr[1].stats[k].calls

(***************************************************************************)
(* C35: the completed event of a cache hit reports the same success_pages  *)
(* and failed_pages as the completed event of the pass that wrote the      *)
(* artifact: the pass that writes the artifact reports as failed the pages *)
(* it stores with the failure sentinel, and so does the cache hit that     *)
(* reads them back.                                                        *)
(***************************************************************************)
C35_Path == get_ocr_cache_path(<<"A">>, FileA)

\* The pages of an artifact that carry the failure sentinel.
C35_Sentinels(pages) ==
    Cardinality({ k \in DOMAIN pages : pages[k].text = OcrFailedText })

\* This step yields a completed event.
C35_Completes ==
    /\ Len(events'[1]) > Len(events[1])
    /\ events'[1][Len(events'[1])].status = "completed"

C35_CountsMatch(e, pages) ==
    /\ e.failed = C35_Sentinels(pages)
    /\ e.n = Len(pages) - C35_Sentinels(pages)

C35_Writer ==
    /\ C35_Completes
    /\ ~ocr'[1].from_cache
    /\ cache' # cache
    /\ cache'[C35_Path].readable

C35_Hit == C35_Completes /\ ocr'[1].from_cache

Cex_C35_CacheHitReportsWritersCounts ==
    [][/\ C35_Writer =>
             C35_CountsMatch(events'[1][Len(events'[1])], cache'[C35_Path].pages)
       /\ C35_Hit =>
             C35_CountsMatch(events'[1][Len(events'[1])], cache[C35_Path].pages)]_vars

(***************************************************************************)
(* C36: at the end of a batch the completion record (progress 100, the     *)
(* all_completed log entry) is written only on DocumentJobs that did not   *)
(* fail: a document that a stage marked failed never carries it.           *)
(***************************************************************************)
C36_Failed(d) == processing_states_memory[d].isError

C36_CompletionRecorded(d) ==
    \E k \in DOMAIN processing_states_memory[d].logs :
        processing_states_memory[d].logs[k] = "all_completed"

Cex_C36_NoCompletionRecordOnFailedJob ==
    \A d \in DOMAIN processing_states_memory :
        C36_Failed(d) => ~C36_CompletionRecorded(d)

(***************************************************************************)
(* C37: the submitter, the pool workers, the status reader and the event   *)
(* subscriber never deadlock: as long as a thread has statements left some *)
(* thread can step; no thread holds processing_lock and active_jobs_lock   *)
(* at the same time; and the acquisitions of processing_lock nested in     *)
(* load_processing_states, save_processing_states and                      *)
(* notify_processing_update are made by the thread that holds it.          *)
(***************************************************************************)
C37_Returned(t) == hd[t].pc > Len(Statements(t))

C37_HoldsBoth(t) == processing_lock = t /\ active_jobs_lock = t

\* The thread is at a statement of a with processing_lock block.
C37_Nested(t) == Statement(t) \in { "load", "mutate", "save", "end with" }

Thm_C37_NoDeadlockNoLockNesting ==
    /\ (\A t \in AllThreads : C37_Returned(t)) \/ ENABLED NextThreads
    /\ \A t \in AllThreads :
          /\ ~C37_HoldsBoth(t)
          /\ C37_Nested(t) => processing_lock = t

\* The status reader holds active_jobs_lock while a worker is inside a
\* block of processing_lock at a nested acquisition and the handler and the
\* subscriber wait for that lock.
Wit_C37_BothLocksHeldByDifferentThreads ==
    /\ active_jobs_lock = "reader"
    /\ processing_lock = "workerA"
    /\ Statement("workerA") = "save"
    /\ Statement("handler") = "with processing_lock"
    /\ Statement("subscriber") = "with processing_lock"
    /\ Statement("workerB") = "with active_jobs_lock"

(***************************************************************************)
(* C38: generate_document_id separates its inputs: two distinct pairs      *)
(* (companyId, fileName) get distinct docIds, also when an input contains  *)
(* the ':' separator, so that once both are queued the progress store      *)
(* holds the job of each under its own key and two companies never share a *)
(* key.                                                                    *)
(***************************************************************************)
C38_Distinct == dq.pairs[1] # dq.pairs[2]

C38_KeyOf(i) ==
    generate_document_id(dq.pairs[i].company_id, dq.pairs[i].file_name)

C38_HoldsJobOf(i) ==
    /\ C38_KeyOf(i) \in DOMAIN processing_states_memory
    /\ processing_states_memory[C38_KeyOf(i)].company_id = dq.pairs[i].company_id
    /\ processing_states_memory[C38_KeyOf(i)].file_name = dq.pairs[i].file_name

Cex_C38_DistinctPairsDistinctKeys ==
    (C38_Distinct /\ dq.queued = Submissions /\ dq.cleaned = {}) =>
        /\ C38_KeyOf(1) # C38_KeyOf(2)
        /\ C38_HoldsJobOf(1)
        /\ C38_HoldsJobOf(2)

====
